---- MODULE Spec2Model ----
(***************************************************************************)
(* A model of redb-extras: the partitioned segment table (partition/),     *)
(* its prefix scan (partition/scan.rs) and the bucket range iterators      *)
(* (buckets/iterator.rs, table_buckets/iterator.rs).                       *)
(*                                                                         *)
(* Byte strings are sequences of 0..255.  The base store (redb) is a map   *)
(* from byte-string keys to byte-string values, ordered by the bytes.      *)
(***************************************************************************)
EXTENDS Integers, Sequences, FiniteSets, TLC

VARIABLES
    config,     \* the PartitionConfig of the table: shard_count, segment_max_bytes, use_meta
    tables,     \* the names of the tables that exist in the database
    segments,   \* contents of SEGMENT_TABLE: encoded segment key -> data
    meta,       \* contents of META_TABLE: encoded meta key -> head segment id
    last,       \* the last call: its name, its arguments, the store before it, its result
    writes,     \* number of writing calls made so far
    creates,    \* number of create_new_segment and write_segment_data calls among them
    bstore,     \* the bucketed store: bucket -> (base key -> the values stored there)
    iter,       \* the range iterator under test: its fields, and whether it is still usable
    frontOut,   \* the values next() has yielded, in the order yielded
    backOut,    \* the values next_back() has yielded, in the order yielded
    lastCall,   \* the last iterator call: which end, and what it returned
    noneCalls,  \* how many calls of each end have returned None, and how many an error
    faults,     \* the buckets whose read fails in the base store
    db,         \* the database of the table buckets: table name -> (key -> value)
    mlast,      \* the last merge call: its arguments, the database before it, its result
    source,     \* the database copied from: table name -> its kind and its rows
    destination,\* the database copied to: table name -> its kind and its rows
    plan,       \* the CopyPlan: its steps, in the order they were added
    copied,     \* the copy_database call: the destination it found, how far it is, its result
    copyFaults, \* the steps of copy_database that fail in the base store
    rtable,     \* a table of RoaringValue: the type of its keys, and key -> stored bytes
    amap,       \* the abstract map the table stands for: key -> set of members
    rlast,      \* the last call on the table: its name, its arguments, its result
    applied     \* the last application of a pure function: its arguments, its result

\* the state of the partitioned table, of the iterator, of the table buckets,
\* of the database copy, of the RoaringValue table, and of the pure functions
pvars == <<config, tables, segments, meta, last, writes, creates>>
ivars == <<bstore, iter, frontOut, backOut, lastCall, noneCalls, faults>>
mvars == <<db, mlast>>
cvars == <<source, destination, plan, copied, copyFaults>>
rvars == <<rtable, amap, rlast>>
fvars == <<applied>>
vars == <<pvars, ivars, mvars, cvars, rvars, fvars>>

----------------------------------------------------------------------------
\* Bounds of the model and the inputs the calls draw from.

\* at most this many update_head_segment / create_new_segment calls in a run
MaxWrites == 2

\* u16::MAX, the largest segment id and shard
U16Max == 65535

\* the base keys "a" and "ab": one is a prefix of the other
BaseKeys == { <<97>>, <<97, 98>> }

\* shard 0; shard 255 = bytes 00 FF; shard 25088 = bytes 62 00 ("b", 0):
\* "a" + shard 25088 and "ab" + shard 0 are the same bytes without a length prefix
Shards == { 0, 255, 25088 }

\* data of 0, 1 and 2 bytes
DataChoices == { <<>>, <<1>>, <<1, 1>> }

\* segment ids given to create_new_segment
CreateIds == { 2, U16Max }

\* segment keys given to write_segment_data: the key of segment 5 of ("a", 0),
\* and that key followed by two more bytes
SegmentKeyChoices ==
    { << 0, 0, 0, 1, 97, 0, 0, 0, 5 >>,
      << 0, 0, 0, 1, 97, 0, 0, 0, 5, 0, 1 >> }

\* the SegmentInfo values given to read_segment_data: segment 5 of ("a", 0),
\* without its data and with data
SegmentInfoChoices ==
    { [ segment_id |-> 5, segment_key |-> << 0, 0, 0, 1, 97, 0, 0, 0, 5 >>,
        segment_data |-> <<>> ],
      [ segment_id |-> 5, segment_key |-> << 0, 0, 0, 1, 97, 0, 0, 0, 5 >>,
        segment_data |-> << <<1, 1>> >> ] }

\* the configurations PartitionConfig::new is called with
ConfigChoices ==
    { [shard_count |-> 1, segment_max_bytes |-> 1, use_meta |-> TRUE],
      [shard_count |-> 2, segment_max_bytes |-> 2, use_meta |-> FALSE] }

\* a configuration whose shard range 0..shard_count holds shard 255
WideConfigChoices ==
    { [shard_count |-> 256, segment_max_bytes |-> 1, use_meta |-> FALSE] }

----------------------------------------------------------------------------
\* Option and Result values.

None == <<>>
Some(x) == <<x>>

Ok(v) == [kind |-> "ok", val |-> v]
Err(e) == [kind |-> "err", err |-> e]
Panic == [kind |-> "panic"]

----------------------------------------------------------------------------
\* Big-endian integers.

U16BE(n) == << (n \div 256) % 256, n % 256 >>

U32BE(n) == << (n \div 16777216) % 256, (n \div 65536) % 256, (n \div 256) % 256, n % 256 >>

U16FromBE(b0, b1) == b0 * 256 + b1

U32FromBE(b0, b1, b2, b3) == ((b0 * 256 + b1) * 256 + b2) * 256 + b3

saturating_add_u8(b, n) == IF b + n > 255 THEN 255 ELSE b + n

\* u16 addition: past u16::MAX a build with overflow checks panics and a build
\* without them wraps
AddU16(a, b) ==
    IF a + b <= U16Max
    THEN { Ok(a + b) }
    ELSE { Panic, Ok((a + b) % (U16Max + 1)) }

----------------------------------------------------------------------------
\* Key encoding.

encode_segment_key(key, shard, segment) ==
    U32BE(Len(key)) \o key \o U16BE(shard) \o U16BE(segment)

\* base_key.len().try_into::<u32>() fails for a key of 2^32 bytes or more
encode_meta_key(base_key, shard) ==
    IF Len(base_key) \div 65536 >= 65536
    THEN Err(<<"InvalidKeyEncoding", "Key too long">>)
    ELSE Ok(U32BE(Len(base_key)) \o base_key \o U16BE(shard))

build_segment_prefix(base_key, shard) ==
    U32BE(Len(base_key)) \o base_key \o U16BE(shard)

----------------------------------------------------------------------------
\* The base store: byte-string keys in lexicographic order.

\* a < b as byte strings
LexLess(a, b) ==
    \E i \in 1..Len(b) :
        /\ i <= Len(a) + 1
        /\ \A j \in 1..(i - 1) : a[j] = b[j]
        /\ \/ i = Len(a) + 1
           \/ a[i] < b[i]

RECURSIVE SortedKeys(_)
SortedKeys(S) ==
    IF S = {} THEN <<>>
    ELSE LET m == CHOOSE x \in S : \A y \in S \ {x} : LexLess(x, y)
         IN  <<m>> \o SortedKeys(S \ {m})

\* table.range(start..end): the entries with start <= key < end, in key order
TableRange(tbl, start, end) ==
    LET keys == SortedKeys({ k \in DOMAIN tbl : ~LexLess(k, start) /\ LexLess(k, end) })
    IN  [ i \in 1..Len(keys) |-> << keys[i], tbl[keys[i]] >> ]

\* table.insert(key, value)
TableInsert(tbl, key, value) ==
    [ k \in DOMAIN tbl \cup {key} |-> IF k = key THEN value ELSE tbl[k] ]

EmptyTable == [ k \in {} |-> <<>> ]

----------------------------------------------------------------------------
\* partition/scan.rs

build_segment_scan_range(base_key, shard) ==
    LET start_key == build_segment_prefix(base_key, shard)
    IN  IF Len(start_key) = 0
        THEN Err("SegmentScanFailed")
        ELSE Ok(<< start_key,
                   [ start_key EXCEPT ![Len(start_key)] = saturating_add_u8(@, 1) ] >>)

\* a slip: the segment id read from the last byte alone
extract_segment_id_low_byte(encoded_key) ==
    IF Len(encoded_key) < 6
    THEN Err("SegmentScanFailed")
    ELSE Ok(encoded_key[Len(encoded_key)])

extract_segment_id(encoded_key) ==
    IF Len(encoded_key) < 6
    THEN Err("SegmentScanFailed")
    ELSE Ok(U16FromBE(encoded_key[Len(encoded_key) - 1], encoded_key[Len(encoded_key)]))

validate_key_match(encoded_key, expected_base_key, expected_shard) ==
    IF Len(encoded_key) < 4 THEN FALSE
    ELSE LET key_len == U32FromBE(encoded_key[1], encoded_key[2],
                                  encoded_key[3], encoded_key[4])
         IN  IF Len(encoded_key) < 4 + key_len + 4 THEN FALSE
             ELSE IF SubSeq(encoded_key, 5, 4 + key_len) # expected_base_key THEN FALSE
             ELSE U16FromBE(encoded_key[4 + key_len + 1], encoded_key[4 + key_len + 2])
                      = expected_shard

SegmentInfo_with_data(segment_id, segment_key, segment_data) ==
    [ segment_id |-> segment_id, segment_key |-> segment_key,
      segment_data |-> Some(segment_data) ]

\* SegmentIterator drained: the items next() returns, in order, over `range`
SegmentIterator(range, base_key, shard) ==
    LET Matches(kv) == validate_key_match(kv[1], base_key, shard)
        valid == SelectSeq(range, Matches)
    IN  [ i \in 1..Len(valid) |->
            LET id == extract_segment_id(valid[i][1])
            IN  IF id.kind = "ok"
                THEN Ok(SegmentInfo_with_data(id.val, valid[i][1], valid[i][2]))
                ELSE id ]

enumerate_segments(tbl, base_key, shard) ==
    LET r == build_segment_scan_range(base_key, shard)
    IN  IF r.kind # "ok" THEN r
        ELSE Ok(SegmentIterator(TableRange(tbl, r.val[1], r.val[2]), base_key, shard))

\* the first error of a drained iterator, or none
FirstError(items) ==
    LET bad == { i \in 1..Len(items) : items[i].kind # "ok" }
    IN  IF bad = {} THEN None
        ELSE Some(items[CHOOSE i \in bad : \A j \in bad : i <= j])

find_head_segment(tbl, base_key, shard) ==
    LET it == enumerate_segments(tbl, base_key, shard)
    IN  IF it.kind # "ok" THEN it
        ELSE IF FirstError(it.val) # None THEN FirstError(it.val)[1]
        ELSE IF Len(it.val) = 0 THEN Ok(None)
        ELSE Ok(Some(it.val[Len(it.val)].val.segment_id))

----------------------------------------------------------------------------
\* partition/table.rs

\* PartitionedWrite::read_segment_data(): the data the SegmentInfo carries, or
\* the data stored under its key
read_segment_data(tbl, segment_info) ==
    IF segment_info.segment_data # None
    THEN Ok(Some(<< segment_info, segment_info.segment_data[1] >>))
    ELSE IF segment_info.segment_key \in DOMAIN tbl
    THEN Ok(Some(<< [ segment_info EXCEPT
                        !.segment_data = Some(tbl[segment_info.segment_key]) ],
                    tbl[segment_info.segment_key] >>))
    ELSE Ok(None)

write_segment_data(tbl, segment_key, data) == TableInsert(tbl, segment_key, data)

create_new_segment(tbl, key, shard, segment_id, data) ==
    write_segment_data(tbl, encode_segment_key(key, shard, segment_id), data)

\* a slip: the first segment of a pair numbered 1
update_head_segment_from_one(tbl, cfg, key, shard, data) ==
    LET head_segment == find_head_segment(tbl, key, shard)
    IN  IF head_segment.kind # "ok"
        THEN { [table |-> tbl, res |-> head_segment] }
        ELSE IF head_segment.val # None
        THEN LET segment_id == head_segment.val[1]
             IN  IF Len(data) <= cfg.segment_max_bytes
                 THEN { [table |-> write_segment_data(
                                       tbl, encode_segment_key(key, shard, segment_id), data),
                         res   |-> Ok(<<FALSE, segment_id>>)] }
                 ELSE { IF new_segment_id.kind = "ok"
                        THEN [table |-> write_segment_data(
                                            tbl,
                                            encode_segment_key(key, shard, new_segment_id.val),
                                            data),
                              res   |-> Ok(<<TRUE, new_segment_id.val>>)]
                        ELSE [table |-> tbl, res |-> Panic]
                        : new_segment_id \in AddU16(segment_id, 1) }
        ELSE { [table |-> write_segment_data(tbl, encode_segment_key(key, shard, 1), data),
                res   |-> Ok(<<TRUE, 1>>)] }

\* a slip: the head overwritten in place whatever the size of the data
update_head_segment_no_size_check(tbl, cfg, key, shard, data) ==
    LET head_segment == find_head_segment(tbl, key, shard)
    IN  IF head_segment.kind # "ok"
        THEN { [table |-> tbl, res |-> head_segment] }
        ELSE IF head_segment.val # None
        THEN LET segment_id == head_segment.val[1]
             IN  { [table |-> write_segment_data(
                                  tbl, encode_segment_key(key, shard, segment_id), data),
                    res   |-> Ok(<<FALSE, segment_id>>)] }
        ELSE { [table |-> write_segment_data(tbl, encode_segment_key(key, shard, 0), data),
                res   |-> Ok(<<TRUE, 0>>)] }

\* The outcomes of update_head_segment on the segment table tbl: the table
\* afterwards and the value returned.
update_head_segment(tbl, cfg, key, shard, data) ==
    LET head_segment == find_head_segment(tbl, key, shard)
    IN  IF head_segment.kind # "ok"
        THEN { [table |-> tbl, res |-> head_segment] }
        ELSE IF head_segment.val # None
        THEN LET segment_id == head_segment.val[1]
             IN  IF Len(data) <= cfg.segment_max_bytes
                 THEN { [table |-> write_segment_data(
                                       tbl, encode_segment_key(key, shard, segment_id), data),
                         res   |-> Ok(<<FALSE, segment_id>>)] }
                 ELSE { IF new_segment_id.kind = "ok"
                        THEN [table |-> write_segment_data(
                                            tbl,
                                            encode_segment_key(key, shard, new_segment_id.val),
                                            data),
                              res   |-> Ok(<<TRUE, new_segment_id.val>>)]
                        ELSE [table |-> tbl, res |-> Panic]
                        : new_segment_id \in AddU16(segment_id, 1) }
        ELSE { [table |-> write_segment_data(tbl, encode_segment_key(key, shard, 0), data),
                res   |-> Ok(<<TRUE, 0>>)] }

\* the map both read methods build: shard -> what Entry makes of its segments;
\* the first shard whose scan fails ends the call with that error
AllSegments(tbl, cfg, key, Entry(_)) ==
    LET scanned == { << s, enumerate_segments(tbl, key, s) >> : s \in 0..(cfg.shard_count - 1) }
        failed == { p \in scanned :
                      IF p[2].kind # "ok" THEN TRUE ELSE FirstError(p[2].val) # None }
        kept == { p \in scanned : Len(p[2].val) > 0 }
    IN  IF failed # {}
        THEN LET f == CHOOSE p \in failed : \A q \in failed : p[1] <= q[1]
             IN  IF f[2].kind # "ok" THEN f[2] ELSE FirstError(f[2].val)[1]
        ELSE [ kind |-> "ok",
               val  |-> [ s \in { p[1] : p \in kept } |->
                            LET items == (CHOOSE p \in kept : p[1] = s)[2].val
                            IN  [ i \in 1..Len(items) |-> Entry(items[i].val) ] ] ]

collect_all_segments(exists, tbl, cfg, key) ==
    LET Entry(info) == << info, info.segment_data >>
    IN  IF ~exists THEN Err("DatabaseError")
        ELSE AllSegments(tbl, cfg, key, Entry)

enumerate_all_segments(exists, tbl, cfg, key) ==
    LET Entry(info) == << info.segment_id, info.segment_data[1] >>
    IN  IF ~exists THEN Err("DatabaseError")
        ELSE AllSegments(tbl, cfg, key, Entry)

----------------------------------------------------------------------------
\* The calls.

Call(op, key, shard, segment_id, data, res) ==
    [ op |-> op, key |-> key, shard |-> shard, segment_id |-> segment_id,
      data |-> data, before |-> segments, existed |-> "segments" \in tables,
      res |-> res ]

IsRead(op) ==
    op \in { "find_head_segment", "enumerate_segments", "read_segment_data",
             "collect_all_segments", "enumerate_all_segments" }

\* A read that creates no table changes nothing but `last`, so a read made
\* after it reaches the state that read reaches when made first: reads are
\* made from the states that construction, a writing call, or a read that
\* created the segment table leaves.
QuietRead == IsRead(last.op) /\ (last.existed <=> "segments" \in tables)

\* no iterator has been made: the partitioned table is exercised on its own
NoIterator ==
    /\ bstore = EmptyTable
    /\ iter = [ state |-> "none" ]
    /\ frontOut = <<>>
    /\ backOut = <<>>
    /\ lastCall = [ side |-> "new", res |-> None ]
    /\ noneCalls = [ next |-> 0, next_back |-> 0, errors |-> 0 ]
    /\ faults = {}

\* no table bucket has been made, and nothing has been merged
NoMerge ==
    /\ db = EmptyTable
    /\ mlast = [ op |-> "none" ]

\* no database is being copied
NoCopy ==
    /\ source = EmptyTable
    /\ destination = EmptyTable
    /\ plan = <<>>
    /\ copied = [ op |-> "none" ]
    /\ copyFaults = {}

\* no table of RoaringValue is in use
NoRoaring ==
    /\ rtable = [ key_type |-> "none", rows |-> EmptyTable ]
    /\ amap = EmptyTable
    /\ rlast = [ op |-> "none" ]

\* no pure function is being applied
NoFunction == applied = [ op |-> "none" ]

InitStore ==
    /\ tables = {}
    /\ segments = EmptyTable
    /\ meta = EmptyTable
    /\ last = [ op |-> "new", key |-> <<>>, shard |-> 0, segment_id |-> 0,
                data |-> <<>>, before |-> EmptyTable, existed |-> FALSE,
                res |-> Ok(<<>>) ]
    /\ writes = 0
    /\ creates = 0

Init ==
    /\ config \in ConfigChoices
    /\ InitStore
    /\ NoIterator
    /\ NoMerge
    /\ NoCopy
    /\ NoRoaring
    /\ NoFunction

InitWide ==
    /\ config \in WideConfigChoices
    /\ InitStore
    /\ NoIterator
    /\ NoMerge
    /\ NoCopy
    /\ NoRoaring
    /\ NoFunction

EnsureTableExists ==
    /\ tables' = tables \cup {"segments"} \cup (IF config.use_meta THEN {"meta"} ELSE {})
    /\ last' = Call("ensure_table_exists", <<>>, 0, 0, <<>>, Ok(<<>>))
    /\ UNCHANGED <<config, segments, meta, writes, creates, ivars, mvars, cvars, rvars, fvars>>

UpdateHeadSegment ==
    /\ writes < MaxWrites
    /\ \E key \in BaseKeys, shard \in Shards, data \in DataChoices :
         \E out \in update_head_segment(segments, config, key, shard, data) :
            /\ segments' = out.table
            /\ last' = Call("update_head_segment", key, shard, 0, data, out.res)
    /\ tables' = tables \cup {"segments"}
    /\ writes' = writes + 1
    /\ UNCHANGED <<config, meta, creates, ivars, mvars, cvars, rvars, fvars>>

CreateNewSegment ==
    /\ writes < MaxWrites
    /\ \E key \in BaseKeys, shard \in Shards, segment_id \in CreateIds :
         /\ segments' = create_new_segment(segments, key, shard, segment_id, <<1>>)
         /\ last' = Call("create_new_segment", key, shard, segment_id, <<1>>, Ok(<<>>))
    /\ tables' = tables \cup {"segments"}
    /\ writes' = writes + 1
    /\ creates' = creates + 1
    /\ UNCHANGED <<config, meta, ivars, mvars, cvars, rvars, fvars>>

\* PartitionedWrite::write_segment_data(segment_key, data), called directly
WriteSegmentData ==
    /\ writes < MaxWrites
    /\ \E segment_key \in SegmentKeyChoices :
         /\ segments' = write_segment_data(segments, segment_key, <<1>>)
         /\ last' = Call("write_segment_data", segment_key, 0, 0, <<1>>, Ok(<<>>))
    /\ tables' = tables \cup {"segments"}
    /\ writes' = writes + 1
    /\ creates' = creates + 1
    /\ UNCHANGED <<config, meta, ivars, mvars, cvars, rvars, fvars>>

\* PartitionedWrite::read_segment_data(segment_info): open_table() on the
\* write transaction creates the segment table, unless the SegmentInfo
\* carries its data and the call returns before it
ReadSegmentData ==
    /\ ~QuietRead
    /\ \E segment_info \in SegmentInfoChoices :
         /\ last' = Call("read_segment_data", segment_info.segment_key, 0,
                         segment_info.segment_id, segment_info.segment_data,
                         read_segment_data(segments, segment_info))
         /\ tables' = IF segment_info.segment_data = None
                      THEN tables \cup {"segments"}
                      ELSE tables
    /\ UNCHANGED <<config, segments, meta, writes, creates, ivars, mvars, cvars, rvars, fvars>>

\* PartitionedWrite::find_head_segment_scan(key, shard): open_table() on the
\* write transaction creates the segment table
FindHeadSegment ==
    /\ ~QuietRead
    /\ \E key \in BaseKeys, shard \in Shards :
         last' = Call("find_head_segment", key, shard, 0, <<>>,
                      find_head_segment(segments, key, shard))
    /\ tables' = tables \cup {"segments"}
    /\ UNCHANGED <<config, segments, meta, writes, creates, ivars, mvars, cvars, rvars, fvars>>

EnumerateSegments ==
    /\ ~QuietRead
    /\ "segments" \in tables
    /\ \E key \in BaseKeys, shard \in Shards :
         last' = Call("enumerate_segments", key, shard, 0, <<>>,
                      enumerate_segments(segments, key, shard))
    /\ UNCHANGED <<config, tables, segments, meta, writes, creates, ivars, mvars, cvars, rvars, fvars>>

CollectAllSegments ==
    /\ ~QuietRead
    /\ \E key \in BaseKeys :
         last' = Call("collect_all_segments", key, 0, 0, <<>>,
                      collect_all_segments("segments" \in tables, segments, config, key))
    /\ UNCHANGED <<config, tables, segments, meta, writes, creates, ivars, mvars, cvars, rvars, fvars>>

EnumerateAllSegments ==
    /\ ~QuietRead
    /\ \E key \in BaseKeys :
         last' = Call("enumerate_all_segments", key, 0, 0, <<>>,
                      enumerate_all_segments("segments" \in tables, segments, config, key))
    /\ UNCHANGED <<config, tables, segments, meta, writes, creates, ivars, mvars, cvars, rvars, fvars>>

Next ==
    \/ EnsureTableExists
    \/ UpdateHeadSegment
    \/ CreateNewSegment
    \/ WriteSegmentData
    \/ ReadSegmentData
    \/ FindHeadSegment
    \/ EnumerateSegments
    \/ CollectAllSegments
    \/ EnumerateAllSegments

Spec == Init /\ [][Next]_vars

\* the same calls on a table of 256 shards
SpecWide == InitWide /\ [][Next]_vars

----------------------------------------------------------------------------
\* u64 and i64 values of the bucket iterators.
\*
\* A bucket is a u64 and a cursor is an i64: the values that matter lie around
\* 0, 2^63 and 2^64.  A number is the pair (hi, lo) standing for hi * 2^63 + lo
\* with a small lo, one pair per value: 2^63 - 1 is (1, -1), u64::MAX is (2, -1),
\* i64::MIN is (-1, 0), and -1 is (0, -1).

W(h, l) == [hi |-> h, lo |-> l]
Small(n) == W(0, n)

TwoTo63 == W(1, 0)
I64Max == W(1, -1)
I64Min == W(-1, 0)
U64Max == W(2, -1)

WLess(a, b) == a.hi < b.hi \/ (a.hi = b.hi /\ a.lo < b.lo)
WLeq(a, b) == a = b \/ WLess(a, b)
WMin(S) == CHOOSE x \in S : \A y \in S : WLeq(x, y)
WMax(S) == CHOOSE x \in S : \A y \in S : WLeq(y, x)

\* `x as i64` of a u64: values from 2^63 up become x - 2^64
as_i64(u) == IF WLeq(TwoTo63, u) THEN W(u.hi - 2, u.lo) ELSE u
\* `x as u64` of an i64: negative values become x + 2^64
as_u64(i) == IF WLess(i, Small(0)) THEN W(i.hi + 2, i.lo) ELSE i

\* i + 1 and i - 1 where they do not overflow
Inc(i) == W(i.hi, i.lo + 1)
Dec(i) == W(i.hi, i.lo - 1)

\* sequence / bucket_size (u64 division).  A bucket_size above 1 is applied to
\* sequences below 2^63 only (hi = 0): the quotient of a larger one is not small.
DivU64(n, d) == IF d = 1 THEN n ELSE Small(n.lo \div d)

----------------------------------------------------------------------------
\* The bucketed stores.
\*
\* bstore maps a bucket to the entries stored for it: base key -> values, in
\* the order the base store returns them.  For the key-bucketed tables
\* (buckets/) this is one table keyed by BucketedKey(base_key, bucket); for the
\* table-bucketed ones (table_buckets/) each bucket of DOMAIN bstore is a table
\* of its own, and a bucket outside DOMAIN bstore is a table that does not exist.
\* A plain table holds one value per key, a multimap table one or more.

\* the base key iterated, and another base key stored next to it
IterBaseKey == 123
OtherBaseKey == 456

\* at most this many values of one base key in one bucket of a multimap table
MaxValues == 2
\* sequences 0..MaxSeq are given to the iterators
MaxSeq == 3
\* buckets 0..MaxBucket may hold values
MaxBucket == 2
\* at most this many calls that return None are made on one iterator
MaxNoneCalls == 2
\* an iterator is called until it has yielded this many values more than the
\* store holds for its base key (a cursor that wraps around yields them again)
MaxExtraYields == 1

BucketSizes == { 1, 2 }
SmallSequences == { Small(n) : n \in 0..MaxSeq }
SmallBuckets == { Small(n) : n \in 0..MaxBucket }

\* sequences and buckets on both sides of 2^63, used with bucket_size 1
WideBucketSizes == { 1 }
WideSequences == { Small(0), W(1, -3), I64Max, TwoTo63, W(1, 2), U64Max }
WideBuckets == { Small(0), W(1, -3), I64Max, TwoTo63, W(1, 2) }

PlainKinds == { "BucketRangeIterator", "TableBucketRangeIterator" }
MultimapKinds == { "BucketRangeMultimapIterator", "TableBucketRangeMultimapIterator" }
TableKinds == { "TableBucketRangeIterator", "TableBucketRangeMultimapIterator" }
IteratorKinds == PlainKinds \cup MultimapKinds

\* the i-th value stored for a base key in a bucket
StoredValue(k, b, i) == [ key |-> k, bucket |-> b, n |-> i ]

\* What a bucket may hold for IterBaseKey: a number of values, or (-1) no
\* table at all where each bucket is a table.
CellChoices(kind) ==
    (IF kind \in TableKinds THEN { -1 } ELSE {})
        \cup (0..(IF kind \in MultimapKinds THEN MaxValues ELSE 1))

\* The store holding cells[b] values of IterBaseKey in bucket b, and one value
\* of OtherBaseKey in every bucket that exists.
StoreOf(cells) ==
    [ b \in { x \in DOMAIN cells : cells[x] >= 0 } |->
        [ k \in (IF cells[b] > 0 THEN { IterBaseKey } ELSE {}) \cup { OtherBaseKey } |->
            IF k = IterBaseKey
            THEN [ i \in 1..cells[b] |-> StoredValue(k, b, i) ]
            ELSE << StoredValue(k, b, 1) >> ] ]

\* table.get(&BucketedKey::new(base_key, bucket)): the values stored, none as <<>>
BucketedGet(store, base_key, bucket) ==
    IF bucket \in DOMAIN store /\ base_key \in DOMAIN store[bucket]
    THEN store[bucket][base_key]
    ELSE <<>>

\* open_table: Ok(Some(table)), or Ok(None) when the bucket's table does not exist
open_table(store, bucket) ==
    IF bucket \in DOMAIN store THEN Ok(Some(store[bucket])) ELSE Ok(None)

\* open_table(bucket) followed by table.get(base_key)
TableGet(store, base_key, bucket) ==
    LET opened == open_table(store, bucket)
    IN  IF opened.val = None THEN <<>>
        ELSE IF base_key \in DOMAIN opened.val[1] THEN opened.val[1][base_key]
        ELSE <<>>

----------------------------------------------------------------------------
\* The range iterators (buckets/iterator.rs, table_buckets/iterator.rs).

\* new() with a half-open range: the last bucket is that of end_sequence - 1
iterator_new_half_open(kind, bucket_size, base_key, start_sequence, end_sequence) ==
    IF WLess(end_sequence, start_sequence)
    THEN Err([ error |-> "InvalidRange", start |-> start_sequence, end |-> end_sequence ])
    ELSE LET start_bucket == DivU64(start_sequence, bucket_size)
             end_bucket == DivU64(IF end_sequence = Small(0) THEN end_sequence
                                  ELSE Dec(end_sequence), bucket_size)
         IN  Ok([ kind |-> kind,
                  base_key |-> base_key,
                  start_bucket |-> start_bucket,
                  end_bucket |-> end_bucket,
                  front_bucket |-> as_i64(start_bucket),
                  back_bucket |-> as_i64(end_bucket),
                  finished |-> FALSE,
                  front_values |-> None,
                  back_values |-> None ])

\* new(): the four constructors are the same code
iterator_new(kind, bucket_size, base_key, start_sequence, end_sequence) ==
    IF WLess(end_sequence, start_sequence)
    THEN Err([ error |-> "InvalidRange", start |-> start_sequence, end |-> end_sequence ])
    ELSE LET start_bucket == DivU64(start_sequence, bucket_size)
             end_bucket == DivU64(end_sequence, bucket_size)
         IN  Ok([ kind |-> kind,
                  base_key |-> base_key,
                  start_bucket |-> start_bucket,
                  end_bucket |-> end_bucket,
                  front_bucket |-> as_i64(start_bucket),
                  back_bucket |-> as_i64(end_bucket),
                  finished |-> FALSE,
                  front_values |-> None,
                  back_values |-> None ])

\* the lookup an iterator makes for one bucket
Lookup(self, store, bucket) ==
    IF self.kind \in TableKinds
    THEN TableGet(store, self.base_key, bucket)
    ELSE BucketedGet(store, self.base_key, bucket)

\* the cursor values at which the lookup finds something
Hits(self, store) ==
    { as_i64(b) : b \in { x \in DOMAIN store : Lookup(self, store, x) # <<>> } }

\* the cursor values at which the loop stops: a lookup finds something, or fails
Stops(self, store, bad) == Hits(self, store) \cup { as_i64(b) : b \in bad }

\* The loop of next():
\*     while front_bucket <= back_bucket {
\*         bucket = front_bucket as u64;  front_bucket += 1;  lookup(bucket) ... }
\* run until a lookup finds something or fails ("found", at that cursor) or the cursors
\* cross ("exhausted"); `cursor` is front_bucket afterwards.  Buckets without
\* values are stepped over one by one, which leaves the cursor one past the
\* bucket found, or one past back_bucket.  `front_bucket += 1` at i64::MAX
\* overflows: a build with overflow checks panics there, one without wraps to
\* i64::MIN, looks bucket i64::MAX up and, finding nothing, goes on from
\* i64::MIN; with nothing stored anywhere that loop does not end ("hang").
ScanFront(front, back, hits) ==
    LET ahead == { h \in hits : WLeq(front, h) /\ WLeq(h, back) }
        first == WMin(ahead)
    IN  IF WLess(back, front)
        THEN { [ kind |-> "exhausted", at |-> front, cursor |-> front ] }
        ELSE IF ahead # {} /\ first # I64Max
        THEN { [ kind |-> "found", at |-> first, cursor |-> Inc(first) ] }
        ELSE IF back # I64Max
        THEN { [ kind |-> "exhausted", at |-> back, cursor |-> Inc(back) ] }
        ELSE { [ kind |-> "panic", at |-> I64Max, cursor |-> I64Max ],
               IF I64Max \in hits
               THEN [ kind |-> "found", at |-> I64Max, cursor |-> I64Min ]
               ELSE IF hits = {}
               THEN [ kind |-> "hang", at |-> I64Max, cursor |-> I64Min ]
               ELSE [ kind |-> "found", at |-> WMin(hits), cursor |-> Inc(WMin(hits)) ] }

\* The loop of next_back(), the mirror image: `cursor` is back_bucket
\* afterwards, and `back_bucket -= 1` overflows at i64::MIN.
ScanBack(front, back, hits) ==
    LET behind == { h \in hits : WLeq(front, h) /\ WLeq(h, back) }
        first == WMax(behind)
    IN  IF WLess(back, front)
        THEN { [ kind |-> "exhausted", at |-> back, cursor |-> back ] }
        ELSE IF behind # {} /\ first # I64Min
        THEN { [ kind |-> "found", at |-> first, cursor |-> Dec(first) ] }
        ELSE IF front # I64Min
        THEN { [ kind |-> "exhausted", at |-> front, cursor |-> Dec(front) ] }
        ELSE { [ kind |-> "panic", at |-> I64Min, cursor |-> I64Min ],
               IF I64Min \in hits
               THEN [ kind |-> "found", at |-> I64Min, cursor |-> I64Max ]
               ELSE IF hits = {}
               THEN [ kind |-> "hang", at |-> I64Min, cursor |-> I64Max ]
               ELSE [ kind |-> "found", at |-> WMax(hits), cursor |-> Dec(WMax(hits)) ] }

\* what a call leaves: the iterator, whether the call returned, and its value;
\* a call that panics leaves the cursor at the edge it had stepped to
Returned(self, res) == [ self |-> self, state |-> "live", res |-> res ]
NoReturn(self, how) ==
    [ self |-> self, state |-> IF how = "panic" THEN "panicked" ELSE "hung", res |-> None ]

\* the iterator after a failed read: iteration does not resume
IterationFailed_unfinished(self) == self
IterationFailed(self) == [self EXCEPT !.finished = TRUE]

\* Err(err) of open_table or get: finished = true; return Some(Err(IterationError))
Failed(self) == Returned(IterationFailed(self), Some(Err("IterationError")))

\* BucketRangeIterator::next and TableBucketRangeIterator::next
plain_next(self, store, bad) ==
    IF self.finished THEN { Returned(self, None) }
    ELSE { CASE o.kind = "found" /\ as_u64(o.at) \in bad ->
                  Failed([self EXCEPT !.front_bucket = o.cursor])
             [] o.kind = "found" /\ as_u64(o.at) \notin bad ->
                  Returned([self EXCEPT !.front_bucket = o.cursor],
                           Some(Ok(Lookup(self, store, as_u64(o.at))[1])))
             [] o.kind = "exhausted" ->
                  Returned([self EXCEPT !.front_bucket = o.cursor, !.finished = TRUE], None)
             [] o.kind = "panic" ->
                  NoReturn([self EXCEPT !.front_bucket = o.cursor], o.kind)
             [] OTHER -> NoReturn(self, o.kind)
           : o \in ScanFront(self.front_bucket, self.back_bucket, Stops(self, store, bad)) }

\* BucketRangeIterator::next_back and TableBucketRangeIterator::next_back
plain_next_back(self, store, bad) ==
    IF self.finished THEN { Returned(self, None) }
    ELSE { CASE o.kind = "found" /\ as_u64(o.at) \in bad ->
                  Failed([self EXCEPT !.back_bucket = o.cursor])
             [] o.kind = "found" /\ as_u64(o.at) \notin bad ->
                  Returned([self EXCEPT !.back_bucket = o.cursor],
                           Some(Ok(Lookup(self, store, as_u64(o.at))[1])))
             [] o.kind = "exhausted" ->
                  Returned([self EXCEPT !.back_bucket = o.cursor, !.finished = TRUE], None)
             [] o.kind = "panic" ->
                  NoReturn([self EXCEPT !.back_bucket = o.cursor], o.kind)
             [] OTHER -> NoReturn(self, o.kind)
           : o \in ScanBack(self.front_bucket, self.back_bucket, Stops(self, store, bad)) }

\* BucketRangeMultimapIterator::next and TableBucketRangeMultimapIterator::next:
\* a value is taken from the front of the bucket buffered in front_values;
\* without one the next bucket holding values is buffered whole.
multimap_next(self, store, bad) ==
    IF self.finished THEN { Returned(self, None) }
    ELSE IF self.front_values # None /\ self.front_values[1] # <<>>
    THEN { Returned([self EXCEPT !.front_values = Some(Tail(self.front_values[1]))],
                    Some(Ok(Head(self.front_values[1])))) }
    ELSE { LET collected == Lookup(self, store, as_u64(o.at))
           IN  CASE o.kind = "found" /\ as_u64(o.at) \in bad ->
                      Failed([self EXCEPT !.front_bucket = o.cursor, !.front_values = None])
                 [] o.kind = "found" /\ as_u64(o.at) \notin bad ->
                      Returned([self EXCEPT !.front_bucket = o.cursor,
                                            !.front_values = Some(Tail(collected))],
                               Some(Ok(Head(collected))))
                 [] o.kind = "exhausted" ->
                      Returned([self EXCEPT !.front_bucket = o.cursor,
                                            !.front_values = None,
                                            !.finished = TRUE], None)
                 [] o.kind = "panic" ->
                      NoReturn([self EXCEPT !.front_bucket = o.cursor,
                                            !.front_values = None], o.kind)
                 [] OTHER -> NoReturn([self EXCEPT !.front_values = None], o.kind)
           : o \in ScanFront(self.front_bucket, self.back_bucket, Stops(self, store, bad)) }

\* BucketRangeMultimapIterator::next_back and
\* TableBucketRangeMultimapIterator::next_back: a value is taken from the back
\* of the bucket buffered in back_values.
multimap_next_back(self, store, bad) ==
    IF self.finished THEN { Returned(self, None) }
    ELSE IF self.back_values # None /\ self.back_values[1] # <<>>
    THEN LET values == self.back_values[1]
         IN  { Returned([self EXCEPT !.back_values = Some(SubSeq(values, 1, Len(values) - 1))],
                        Some(Ok(values[Len(values)]))) }
    ELSE { LET collected == Lookup(self, store, as_u64(o.at))
           IN  CASE o.kind = "found" /\ as_u64(o.at) \in bad ->
                      Failed([self EXCEPT !.back_bucket = o.cursor, !.back_values = None])
                 [] o.kind = "found" /\ as_u64(o.at) \notin bad ->
                      Returned([self EXCEPT !.back_bucket = o.cursor,
                                            !.back_values =
                                                Some(SubSeq(collected, 1, Len(collected) - 1))],
                               Some(Ok(collected[Len(collected)])))
                 [] o.kind = "exhausted" ->
                      Returned([self EXCEPT !.back_bucket = o.cursor,
                                            !.back_values = None,
                                            !.finished = TRUE], None)
                 [] o.kind = "panic" ->
                      NoReturn([self EXCEPT !.back_bucket = o.cursor,
                                            !.back_values = None], o.kind)
                 [] OTHER -> NoReturn([self EXCEPT !.back_values = None], o.kind)
           : o \in ScanBack(self.front_bucket, self.back_bucket, Stops(self, store, bad)) }

\* the buckets an iterator of the model can be asked for
RangeBuckets(store) == DOMAIN store \cup SmallSequences

\* The buckets a call of next() has looked up, read off what it did to the
\* cursor.  A call that finds the iterator finished, a value in front_values
\* or the cursors crossed looks nothing up.  Otherwise the loop looks up the
\* bucket under front_bucket and steps the cursor, from the front_bucket the
\* call found to the one it leaves, the latter excluded; a cursor left at or
\* below where it was has wrapped around from i64::MAX to i64::MIN on the way,
\* and a call that does not end looks every bucket up.
looked_up_by_next(self, store, o) ==
    IF \/ self.finished
       \/ self.front_values # None /\ self.front_values[1] # <<>>
       \/ WLess(self.back_bucket, self.front_bucket)
    THEN {}
    ELSE { b \in RangeBuckets(store) :
              LET at == as_i64(b)
              IN  IF o.state = "hung"
                  THEN TRUE
                  ELSE IF o.state = "live" /\ WLeq(o.self.front_bucket, self.front_bucket)
                  THEN WLeq(self.front_bucket, at) \/ WLess(at, o.self.front_bucket)
                  ELSE WLeq(self.front_bucket, at) /\ WLess(at, o.self.front_bucket) }

\* the same for next_back(), whose cursor steps down and wraps around from
\* i64::MIN to i64::MAX
looked_up_by_next_back(self, store, o) ==
    IF \/ self.finished
       \/ self.back_values # None /\ self.back_values[1] # <<>>
       \/ WLess(self.back_bucket, self.front_bucket)
    THEN {}
    ELSE { b \in RangeBuckets(store) :
              LET at == as_i64(b)
              IN  IF o.state = "hung"
                  THEN TRUE
                  ELSE IF o.state = "live" /\ WLeq(self.back_bucket, o.self.back_bucket)
                  THEN WLeq(at, self.back_bucket) \/ WLess(o.self.back_bucket, at)
                  ELSE WLeq(at, self.back_bucket) /\ WLess(o.self.back_bucket, at) }

iterator_next(self, store, bad) ==
    IF self.kind \in MultimapKinds
    THEN multimap_next(self, store, bad)
    ELSE plain_next(self, store, bad)

iterator_next_back(self, store, bad) ==
    IF self.kind \in MultimapKinds
    THEN multimap_next_back(self, store, bad)
    ELSE plain_next_back(self, store, bad)

----------------------------------------------------------------------------
\* An iterator over a store, and the calls made on it.

\* the partitioned table is left alone while an iterator is exercised
NoPartition ==
    /\ config = [ shard_count |-> 1, segment_max_bytes |-> 1, use_meta |-> FALSE ]
    /\ InitStore

\* A store over the given buckets, and an iterator of some kind made for
\* IterBaseKey over a sequence range: `iter` holds what new() was given, the
\* iterator it returned (state "live") or its error (state "rejected"), and
\* the buckets the calls on it have looked up.
InitIterator(buckets, sequences, bucket_sizes) ==
    \E kind \in IteratorKinds, bucket_size \in bucket_sizes,
       start_sequence \in sequences, end_sequence \in sequences :
       \E cells \in [ buckets -> CellChoices(kind) ] :
          LET made == iterator_new(kind, bucket_size, IterBaseKey,
                                   start_sequence, end_sequence)
          IN  /\ bstore = StoreOf(cells)
              /\ iter = [ kind |-> kind,
                          bucket_size |-> bucket_size,
                          start_sequence |-> start_sequence,
                          end_sequence |-> end_sequence,
                          state |-> IF made.kind = "ok" THEN "live" ELSE "rejected",
                          self |-> IF made.kind = "ok" THEN made.val ELSE made.err,
                          visited |-> {} ]
              /\ frontOut = <<>>
              /\ backOut = <<>>
              /\ lastCall = [ side |-> "new", res |-> None ]
              /\ noneCalls = [ next |-> 0, next_back |-> 0, errors |-> 0 ]

InitIter ==
    /\ NoPartition
    /\ InitIterator(SmallBuckets, SmallSequences, BucketSizes)
    /\ faults = {}
    /\ NoMerge
    /\ NoCopy
    /\ NoRoaring
    /\ NoFunction

InitIterWide ==
    /\ NoPartition
    /\ InitIterator(WideBuckets, WideSequences, WideBucketSizes)
    /\ faults = {}
    /\ NoMerge
    /\ NoCopy
    /\ NoRoaring
    /\ NoFunction

\* the same iterators over a store in which the read of one bucket fails
InitIterFault ==
    /\ NoPartition
    /\ InitIterator(SmallBuckets, SmallSequences, WideBucketSizes)
    /\ \E b \in SmallBuckets : faults = {b}
    /\ NoMerge
    /\ NoCopy
    /\ NoRoaring
    /\ NoFunction

\* the number of values the store holds for a base key
RECURSIVE StoredCount(_, _, _)
StoredCount(store, base_key, buckets) ==
    IF buckets = {} THEN 0
    ELSE LET b == CHOOSE x \in buckets : TRUE
         IN  Len(BucketedGet(store, base_key, b))
                + StoredCount(store, base_key, buckets \ {b})

\* the calls the model makes on an iterator: it is usable, and the bounds on
\* the calls are not reached
MayCall ==
    /\ iter.state = "live"
    /\ noneCalls.next + noneCalls.next_back < MaxNoneCalls
    /\ Len(frontOut) + Len(backOut)
          < StoredCount(bstore, iter.self.base_key, DOMAIN bstore) + MaxExtraYields

\* next() on the iterator
IterNext ==
    /\ MayCall
    /\ \E o \in iterator_next(iter.self, bstore, faults) :
         /\ iter' = [iter EXCEPT !.self = o.self, !.state = o.state,
                                 !.visited = @ \cup looked_up_by_next(iter.self, bstore, o)]
         /\ lastCall' = [ side |-> "next", res |-> o.res ]
         /\ frontOut' = IF o.res # None /\ o.res[1].kind = "ok"
                        THEN Append(frontOut, o.res[1].val)
                        ELSE frontOut
         /\ noneCalls' = IF o.state = "live" /\ o.res = None
                         THEN [noneCalls EXCEPT !.next = @ + 1]
                         ELSE IF o.res # None /\ o.res[1].kind = "err"
                         THEN [noneCalls EXCEPT !.errors = @ + 1]
                         ELSE noneCalls
    /\ UNCHANGED <<bstore, faults, backOut, pvars, mvars, cvars, rvars, fvars>>

\* next_back() on the iterator
IterNextBack ==
    /\ MayCall
    /\ \E o \in iterator_next_back(iter.self, bstore, faults) :
         /\ iter' = [iter EXCEPT !.self = o.self, !.state = o.state,
                                 !.visited = @ \cup looked_up_by_next_back(iter.self, bstore, o)]
         /\ lastCall' = [ side |-> "next_back", res |-> o.res ]
         /\ backOut' = IF o.res # None /\ o.res[1].kind = "ok"
                        THEN Append(backOut, o.res[1].val)
                        ELSE backOut
         /\ noneCalls' = IF o.state = "live" /\ o.res = None
                         THEN [noneCalls EXCEPT !.next_back = @ + 1]
                         ELSE IF o.res # None /\ o.res[1].kind = "err"
                         THEN [noneCalls EXCEPT !.errors = @ + 1]
                         ELSE noneCalls
    /\ UNCHANGED <<bstore, faults, frontOut, pvars, mvars, cvars, rvars, fvars>>

NextIter ==
    \/ IterNext
    \/ IterNextBack

\* iterators over buckets 0..MaxBucket
SpecIter == InitIter /\ [][NextIter]_vars

\* iterators over buckets on both sides of 2^63
SpecIterWide == InitIterWide /\ [][NextIter]_vars

\* iterators over a store with a failing bucket
SpecIterFault == InitIterFault /\ [][NextIter]_vars

----------------------------------------------------------------------------
\* What is stored, read off the key format
\* [4-byte BE key_len][base_key][2-byte BE shard][2-byte BE segment].

MaxOf(S) == CHOOSE x \in S : \A y \in S : y <= x

\* the segment ids stored for (key, shard)
StoredIds(tbl, key, shard) ==
    { U16FromBE(k[Len(k) - 1], k[Len(k)]) :
        k \in { x \in DOMAIN tbl :
                  /\ Len(x) = 4 + Len(key) + 4
                  /\ SubSeq(x, 1, Len(x) - 2) = U32BE(Len(key)) \o key \o U16BE(shard) } }

\* the head of (key, shard): the largest segment id stored
StoredHead(tbl, key, shard) ==
    IF StoredIds(tbl, key, shard) = {} THEN None
    ELSE Some(MaxOf(StoredIds(tbl, key, shard)))

IsUpdate == last.op = "update_head_segment"

----------------------------------------------------------------------------
\* C1: when a head segment h exists for (key, shard), update_head_segment
\* with data of at most segment_max_bytes overwrites segment h and returns
\* (false, h); with larger data it creates segment h + 1, returns (true, h + 1)
\* and leaves segment h as it was; the returned id is the head afterwards and
\* holds exactly the data.
C1_RollingPolicy ==
    (IsUpdate /\ StoredHead(last.before, last.key, last.shard) # None) =>
        LET h  == StoredHead(last.before, last.key, last.shard)[1]
            hk == encode_segment_key(last.key, last.shard, h)
        IN  /\ last.res.kind = "ok"
            /\ IF Len(last.data) <= config.segment_max_bytes
               THEN /\ last.res.val = <<FALSE, h>>
                    /\ segments = TableInsert(last.before, hk, last.data)
               ELSE /\ last.res.val = <<TRUE, h + 1>>
                    /\ segments = TableInsert(last.before,
                                      encode_segment_key(last.key, last.shard, h + 1),
                                      last.data)
                    /\ segments[hk] = last.before[hk]
            /\ StoredHead(segments, last.key, last.shard) = Some(last.res.val[2])
            /\ segments[encode_segment_key(last.key, last.shard, last.res.val[2])] = last.data

\* C2: with no segment stored for (key, shard), update_head_segment creates
\* segment 0 holding the data and returns (true, 0); afterwards segment 0 is
\* the head and the only segment of the pair.
C2_FirstSegment ==
    (IsUpdate /\ StoredIds(last.before, last.key, last.shard) = {}) =>
        /\ last.res = Ok(<<TRUE, 0>>)
        /\ segments = TableInsert(last.before,
                          encode_segment_key(last.key, last.shard, 0), last.data)
        /\ StoredIds(segments, last.key, last.shard) = {0}
        /\ StoredHead(segments, last.key, last.shard) = Some(0)

\* a first segment created for a pair while another pair already has one,
\* with data larger than segment_max_bytes
C2_Witness ==
    /\ IsUpdate
    /\ StoredIds(last.before, last.key, last.shard) = {}
    /\ last.before # EmptyTable
    /\ Len(last.data) > config.segment_max_bytes
    /\ last.res = Ok(<<TRUE, 0>>)

\* C3: after update_head_segment calls only, collect_all_segments(key) and
\* enumerate_all_segments(key) return, under each shard s < shard_count, every
\* segment stored for (key, s) with its data.
C3_ReadsEverySegment ==
    (last.op \in {"collect_all_segments", "enumerate_all_segments"} /\ creates = 0) =>
        \A s \in { x \in Shards : x < config.shard_count } :
            \A id \in StoredIds(segments, last.key, s) :
                /\ last.res.kind = "ok"
                /\ s \in DOMAIN last.res.val
                /\ \E i \in 1..Len(last.res.val[s]) :
                     LET e == last.res.val[s][i]
                         stored == segments[encode_segment_key(last.key, s, id)]
                     IN  IF last.op = "collect_all_segments"
                         THEN e[1].segment_id = id /\ e[2] = Some(stored)
                         ELSE e = << id, stored >>

\* C4: find_head_segment returns Some(m), m the largest segment id stored for
\* (base_key, shard), and None exactly when the pair has no segment.
C4_FindHeadIsLargest ==
    (last.op = "find_head_segment") =>
        last.res = Ok(StoredHead(segments, last.key, last.shard))

\* C5: enumerate_segments yields only segments whose stored key encodes the
\* (base_key, shard) asked for, each with its stored data, at most once and in
\* strictly ascending segment id order.
C5_EnumerateOnlyOwn ==
    (last.op = "enumerate_segments") =>
        /\ last.res.kind = "ok"
        /\ \A i \in 1..Len(last.res.val) :
             /\ last.res.val[i].kind = "ok"
             /\ LET info == last.res.val[i].val
                IN  /\ info.segment_key =
                           encode_segment_key(last.key, last.shard, info.segment_id)
                    /\ info.segment_key \in DOMAIN segments
                    /\ info.segment_data = Some(segments[info.segment_key])
        /\ \A i, j \in 1..Len(last.res.val) :
             i < j => last.res.val[i].val.segment_id < last.res.val[j].val.segment_id

\* a segment of ("ab", shard 0) is yielded while ("a", shard 25088), whose key
\* bytes are the same without the length prefix, has a segment that is not
C5_Witness ==
    /\ last.op = "enumerate_segments"
    /\ last.key = <<97, 98>>
    /\ last.shard = 0
    /\ last.res.kind = "ok"
    /\ Len(last.res.val) = 1
    /\ StoredIds(segments, <<97>>, 25088) # {}

\* C6: with head segment 65535 and data larger than segment_max_bytes,
\* update_head_segment returns a SegmentScanFailed error and writes nothing.
C6_NoWrapAtMaxSegment ==
    ( /\ IsUpdate
      /\ StoredHead(last.before, last.key, last.shard) = Some(U16Max)
      /\ Len(last.data) > config.segment_max_bytes ) =>
        /\ last.res = Err("SegmentScanFailed")
        /\ segments = last.before

\* C7: with use_meta, after an update_head_segment call that creates or rolls
\* a segment the meta table holds the head segment id at the pair's meta key.
C7_MetaTracksHead ==
    ( /\ config.use_meta
      /\ IsUpdate
      /\ last.res.kind = "ok"
      /\ last.res.val[1] ) =>
        LET mk == encode_meta_key(last.key, last.shard)
        IN  /\ mk.kind = "ok"
            /\ mk.val \in DOMAIN meta
            /\ meta[mk.val] = last.res.val[2]

\* C8 as claimed: after update_head_segment calls only, every stored segment
\* holds at most segment_max_bytes bytes.
C8_EverySegmentBounded ==
    (creates = 0) =>
        \A k \in DOMAIN segments : Len(segments[k]) <= config.segment_max_bytes

\* C8 amended: an update in place (rolled = false) leaves at most
\* segment_max_bytes bytes in the head; every segment that an
\* update_head_segment call makes larger than segment_max_bytes is the segment
\* that call created (rolled = true).
C8_InPlaceBounded ==
    (IsUpdate /\ last.res.kind = "ok") =>
        LET written == encode_segment_key(last.key, last.shard, last.res.val[2])
        IN  /\ ~last.res.val[1] => Len(segments[written]) <= config.segment_max_bytes
            /\ \A k \in DOMAIN segments :
                 Len(segments[k]) > config.segment_max_bytes =>
                    \/ k \in DOMAIN last.before /\ last.before[k] = segments[k]
                    \/ last.res.val[1] /\ k = written

\* an update in place with data of exactly segment_max_bytes bytes
C8_Witness ==
    /\ IsUpdate
    /\ last.res.kind = "ok"
    /\ ~last.res.val[1]
    /\ Len(last.data) = config.segment_max_bytes
    /\ segments[encode_segment_key(last.key, last.shard, last.res.val[2])] = last.data

----------------------------------------------------------------------------
\* What an iterator is to yield, read off the store.

\* the buckets of start_bucket..=end_bucket that hold values for the base key
BucketsInRange(self, store) ==
    { b \in DOMAIN store :
        /\ WLeq(self.start_bucket, b)
        /\ WLeq(b, self.end_bucket)
        /\ self.base_key \in DOMAIN store[b] }

\* the values of these buckets, in increasing bucket order
RECURSIVE ValuesAscending(_, _, _)
ValuesAscending(store, base_key, buckets) ==
    IF buckets = {} THEN <<>>
    ELSE LET b == WMin(buckets)
         IN  store[b][base_key] \o ValuesAscending(store, base_key, buckets \ {b})

SeqRange(s) == { s[i] : i \in 1..Len(s) }
NoDuplicates(s) == \A i, j \in 1..Len(s) : s[i] = s[j] => i = j

\* the iterator returned by new() has been called and every call returned
IterLive == iter.state = "live"
SomeNone == noneCalls.next + noneCalls.next_back > 0

\* C9: on a multimap iterator of either family, under every interleaving of
\* next() and next_back(), no value is yielded twice, only values stored for
\* the base key in the bucket range are yielded, and once a call has returned
\* None every such value has been yielded.
C9_MultimapExactlyOnce ==
    (IterLive /\ iter.kind \in MultimapKinds) =>
        LET out == frontOut \o backOut
            stored == SeqRange(ValuesAscending(bstore, iter.self.base_key,
                                               BucketsInRange(iter.self, bstore)))
        IN  /\ NoDuplicates(out)
            /\ SeqRange(out) \subseteq stored
            /\ SomeNone => SeqRange(out) = stored

\* C10: a plain iterator of either family made for start <= end and drained
\* with next() alone has yielded, when next() returns None, exactly the values
\* stored for the base key in buckets start/bucket_size ..= end/bucket_size,
\* one per bucket holding one, in increasing bucket order, and no value of
\* another base key.
C10_ForwardDrain ==
    ( /\ IterLive
      /\ iter.kind \in PlainKinds
      /\ noneCalls.next > 0
      /\ noneCalls.next_back = 0
      /\ backOut = <<>> ) =>
        frontOut = ValuesAscending(bstore, iter.self.base_key,
                                   BucketsInRange(iter.self, bstore))

----------------------------------------------------------------------------
\* Draining a fresh iterator.

\* the iterator new() returns for the arguments `iter` was made with
FreshIterator ==
    iterator_new(iter.kind, iter.bucket_size, IterBaseKey,
                 iter.start_sequence, iter.end_sequence).val

\* next() called until it returns None: the ways this can end, each with the
\* values yielded.  `done` is "none" when next() returned None, "panicked" or
\* "hung" when a call did not return, "err" when it returned an error, and
\* "cut" when more values came out than `fuel` allows.
RECURSIVE DrainForward(_, _, _, _, _)
DrainForward(self, store, bad, out, fuel) ==
    UNION { IF o.state # "live" THEN { [ done |-> o.state, out |-> out ] }
            ELSE IF o.res = None THEN { [ done |-> "none", out |-> out ] }
            ELSE IF o.res[1].kind = "err" THEN { [ done |-> "err", out |-> out ] }
            ELSE IF fuel = 0 THEN { [ done |-> "cut", out |-> out ] }
            ELSE DrainForward(o.self, store, bad, Append(out, o.res[1].val), fuel - 1)
          : o \in iterator_next(self, store, bad) }

Reverse(s) == [ i \in 1..Len(s) |-> s[Len(s) + 1 - i] ]

\* only next_back() has been called on the iterator, and has ended the
\* iteration: it returned None, or did not return
DrainedBackward ==
    /\ iter.state \in { "live", "panicked", "hung" }
    /\ lastCall.side = "next_back"
    /\ frontOut = <<>>
    /\ noneCalls.next = 0
    /\ noneCalls.errors = 0
    /\ noneCalls.next_back > 0 \/ iter.state # "live"

\* C11: for each of the four iterators, on every store and valid range,
\* draining with next_back() alone ends with None and has yielded the reverse
\* of what draining a fresh iterator with next() alone yields.
C11_ReverseIsMirror ==
    DrainedBackward =>
        /\ iter.state = "live"
        /\ \A f \in DrainForward(FreshIterator, bstore, faults, <<>>,
                                 StoredCount(bstore, IterBaseKey, DOMAIN bstore)) :
              /\ f.done = "none"
              /\ backOut = Reverse(f.out)

\* the buckets of a sequence of yielded values are strictly increasing
BucketsIncrease(s) ==
    \A i, j \in 1..Len(s) : i < j => WLess(s[i].bucket, s[j].bucket)

\* C12: on a plain iterator of either family, under every interleaving of
\* next() and next_back(), no value is yielded twice and only values of the
\* base key in the bucket range are yielded; next() yields in increasing
\* bucket order and next_back() in decreasing bucket order; a call returns
\* None only once the cursors have crossed, and by then the value of every
\* non-empty bucket of the range has been yielded.
C12_PlainExactlyOnce ==
    (IterLive /\ iter.kind \in PlainKinds) =>
        LET out == frontOut \o backOut
            stored == SeqRange(ValuesAscending(bstore, iter.self.base_key,
                                               BucketsInRange(iter.self, bstore)))
        IN  /\ NoDuplicates(out)
            /\ SeqRange(out) \subseteq stored
            /\ BucketsIncrease(frontOut)
            /\ BucketsIncrease(Reverse(backOut))
            /\ SomeNone => /\ WLess(iter.self.back_bucket, iter.self.front_bucket)
                           /\ SeqRange(out) = stored

\* the number of calls that have returned None or an error
EndingCalls == noneCalls.next + noneCalls.next_back + noneCalls.errors

\* C13: on each of the four iterators, once a call has returned None or a
\* database error, every later call of next() and of next_back() returns None:
\* it yields no value and no second error.
C13_EndIsFinal ==
    [][ EndingCalls > 0 =>
            /\ lastCall'.res = None
            /\ iter'.state = "live"
            /\ frontOut' = frontOut
            /\ backOut' = backOut
            /\ noneCalls'.errors = noneCalls.errors ]_vars

\* a read failed while values of the range were still to come, and next() and
\* next_back() have both been called since and returned None
C13_Witness ==
    /\ IterLive
    /\ noneCalls.errors = 1
    /\ noneCalls.next > 0
    /\ noneCalls.next_back > 0
    /\ Len(frontOut) + Len(backOut)
         < Len(ValuesAscending(bstore, iter.self.base_key,
                               BucketsInRange(iter.self, bstore) \ faults))

\* the values yielded so far, by either end
Yielded == SeqRange(frontOut) \cup SeqRange(backOut)

\* the buckets the calls so far have looked up
Visited == iter.visited

\* bucket b holds a sequence s with start_sequence <= s < end_sequence
\* (for sequences below 2^63)
InHalfOpenRange(b) ==
    /\ b.hi = 0
    /\ b.lo * iter.bucket_size < iter.end_sequence.lo
    /\ (b.lo + 1) * iter.bucket_size > iter.start_sequence.lo

\* bucket b holds a sequence s with start_sequence <= s <= end_sequence
\* (for sequences below 2^63)
InClosedRange(b) ==
    /\ b.hi = 0
    /\ b.lo * iter.bucket_size <= iter.end_sequence.lo
    /\ (b.lo + 1) * iter.bucket_size > iter.start_sequence.lo

\* C14 as claimed: the buckets visited are exactly those holding a sequence of
\* the half-open range [start_sequence, end_sequence): no other bucket is
\* looked up and no value of another bucket is yielded, and once a call has
\* returned None, no read having failed, every such bucket has been looked up.
C14_HalfOpenRange ==
    (IterLive /\ iter.end_sequence.hi = 0) =>
        /\ \A b \in Visited : InHalfOpenRange(b)
        /\ \A v \in Yielded : InHalfOpenRange(v.bucket)
        /\ (SomeNone /\ noneCalls.errors = 0) =>
              \A b \in RangeBuckets(bstore) : InHalfOpenRange(b) => b \in Visited

\* C14 amended: the buckets visited are exactly those holding a sequence of
\* the closed range [start_sequence, end_sequence], the bucket
\* end_sequence / bucket_size included when end_sequence is a multiple of
\* bucket_size: no other bucket is looked up and no value of another bucket is
\* yielded, and once a call has returned None, no read having failed, every
\* such bucket has been looked up.
C14_ClosedBucketRange ==
    (IterLive /\ iter.end_sequence.hi = 0) =>
        /\ \A b \in Visited : InClosedRange(b)
        /\ \A v \in Yielded : InClosedRange(v.bucket)
        /\ (SomeNone /\ noneCalls.errors = 0) =>
              \A b \in RangeBuckets(bstore) : InClosedRange(b) => b \in Visited

\* end_sequence is a multiple of bucket_size 2; the bucket
\* end_sequence / bucket_size, which holds no sequence below end_sequence,
\* has been looked up and its value yielded, and the iterator has ended
C14_Witness ==
    /\ IterLive
    /\ SomeNone
    /\ iter.bucket_size = 2
    /\ iter.start_sequence = Small(0)
    /\ iter.end_sequence = Small(2)
    /\ Visited = { Small(0), Small(1) }
    /\ \E v \in Yielded : v.bucket = Small(1)

----------------------------------------------------------------------------
\* table_buckets/mod.rs: the names of the bucket tables, and merge.

\* Strings are sequences of characters; a table value is a string.
Digits == << "0", "1", "2", "3", "4", "5", "6", "7", "8", "9" >>

IsDigit(c) == \E i \in 1..10 : Digits[i] = c

DigitValue(c) == (CHOOSE i \in 1..10 : Digits[i] = c) - 1

\* format!("{}", bucket)
RECURSIVE ToDecimal(_)
ToDecimal(n) ==
    IF n < 10
    THEN << Digits[n + 1] >>
    ELSE ToDecimal(n \div 10) \o << Digits[(n % 10) + 1] >>

RECURSIVE DecimalValue(_)
DecimalValue(s) ==
    IF s = <<>>
    THEN 0
    ELSE DecimalValue(SubSeq(s, 1, Len(s) - 1)) * 10 + DigitValue(s[Len(s)])

\* str::parse::<u64>(): an optional "+", then one or more decimal digits
\* (the names of the model are too short to overflow a u64)
parse_u64(s) ==
    LET digits == IF s # <<>> /\ s[1] = "+" THEN Tail(s) ELSE s
    IN  IF digits = <<>> \/ \E i \in 1..Len(digits) : ~IsDigit(digits[i])
        THEN Err("ParseIntError")
        ELSE Ok(DecimalValue(digits))

\* str::strip_prefix()
strip_prefix(name, prefix) ==
    IF Len(name) >= Len(prefix) /\ SubSeq(name, 1, Len(prefix)) = prefix
    THEN Some(SubSeq(name, Len(prefix) + 1, Len(name)))
    ELSE None

\* format!("{}_{}", self.table_prefix, bucket)
bucket_table_name(table_prefix, bucket) ==
    table_prefix \o << "_" >> \o ToDecimal(bucket)

\* MergeableValue::merge() of the String values of the tests
MergeableValue_merge(existing, incoming) ==
    IF existing = None
    THEN incoming
    ELSE existing[1] \o << "+" >> \o incoming

\* the keys of a table in the order its iterator yields them
RECURSIVE KeysAscending(_)
KeysAscending(keys) ==
    IF keys = {}
    THEN <<>>
    ELSE LET least == CHOOSE k \in keys : \A other \in keys : k <= other
         IN  << least >> \o KeysAscending(keys \ {least})

\* the loop over the entries with the incoming value written over the existing one
RECURSIVE merge_entries_overwrite(_, _, _, _, _, _)
merge_entries_overwrite(target_table, bucket_table, keys, target, bucket_name, log) ==
    IF keys = <<>>
    THEN [ table |-> target_table, log |-> log ]
    ELSE merge_entries_overwrite(TableInsert(target_table, Head(keys), bucket_table[Head(keys)]),
                                 bucket_table, Tail(keys), target, bucket_name,
                                 log \o << [ op |-> "insert", name |-> target,
                                             key |-> Head(keys), from |-> bucket_name ] >>)

\* the loop over the entries of one bucket table: read the target, merge, write
RECURSIVE merge_entries(_, _, _, _, _, _)
merge_entries(target_table, bucket_table, keys, target, bucket_name, log) ==
    IF keys = <<>>
    THEN [ table |-> target_table, log |-> log ]
    ELSE LET key == Head(keys)
             incoming == bucket_table[key]
             existing_value == IF key \in DOMAIN target_table
                               THEN Some(target_table[key])
                               ELSE None
             merged == MergeableValue_merge(existing_value, incoming)
         IN  merge_entries(TableInsert(target_table, key, merged), bucket_table,
                           Tail(keys), target, bucket_name,
                           log \o << [ op |-> "get", name |-> target, key |-> key ],
                                     [ op |-> "insert", name |-> target, key |-> key,
                                       from |-> bucket_name ] >>)

\* the loop over the buckets with the drained bucket tables left in place
RECURSIVE merge_buckets_keep_tables(_, _, _, _, _, _, _)
merge_buckets_keep_tables(d, existing_tables, table_prefix, target, bucket, end_bucket, log) ==
    IF bucket > end_bucket
    THEN [ db |-> d, res |-> Ok(<<>>), log |-> log ]
    ELSE LET bucket_name == bucket_table_name(table_prefix, bucket)
         IN  IF bucket_name \notin existing_tables \/ bucket_name = target
             THEN merge_buckets_keep_tables(d, existing_tables, table_prefix, target,
                                            bucket + 1, end_bucket, log)
             ELSE LET done == merge_entries(d[target], d[bucket_name],
                                            KeysAscending(DOMAIN d[bucket_name]),
                                            target, bucket_name, log)
                  IN  merge_buckets_keep_tables([ d EXCEPT ![target] = done.table ],
                                                existing_tables, table_prefix, target,
                                                bucket + 1, end_bucket, done.log)

\* the loop over the buckets of the range; a bucket table that is the target
\* itself cannot be opened a second time
RECURSIVE merge_buckets(_, _, _, _, _, _, _)
merge_buckets(d, existing_tables, table_prefix, target, bucket, end_bucket, log) ==
    IF bucket > end_bucket
    THEN [ db |-> d, res |-> Ok(<<>>), log |-> log ]
    ELSE LET bucket_name == bucket_table_name(table_prefix, bucket)
         IN  IF bucket_name \notin existing_tables
             THEN merge_buckets(d, existing_tables, table_prefix, target,
                                bucket + 1, end_bucket, log)
             ELSE IF bucket_name = target
             THEN [ db |-> d, res |-> Err("IterationError"), log |-> log ]
             ELSE LET opened == Append(log, [ op |-> "open_table", name |-> bucket_name ])
                      done == merge_entries(d[target], d[bucket_name],
                                            KeysAscending(DOMAIN d[bucket_name]),
                                            target, bucket_name, opened)
                      deleted == [ n \in DOMAIN d \ {bucket_name} |->
                                      IF n = target THEN done.table ELSE d[n] ]
                  IN  merge_buckets(deleted, existing_tables, table_prefix, target,
                                    bucket + 1, end_bucket,
                                    Append(done.log, [ op |-> "delete_table",
                                                       name |-> bucket_name ]))

\* merge() without the check of its range
merge_without_range_check(d, table_prefix, target, start_bucket, end_bucket) ==
    merge_buckets([ n \in DOMAIN d \cup {target} |->
                       IF n \in DOMAIN d THEN d[n] ELSE EmptyTable ],
                  DOMAIN d, table_prefix, target, start_bucket, end_bucket,
                  << [ op |-> "list_tables" ],
                     [ op |-> "open_table", name |-> target ] >>)

\* merge() that empties the target before it merges into it
merge_into_emptied_target(d, table_prefix, target, start_bucket, end_bucket) ==
    IF start_bucket > end_bucket
    THEN [ db |-> d,
           res |-> Err([ error |-> "InvalidRange", start |-> start_bucket,
                         end |-> end_bucket ]),
           log |-> <<>> ]
    ELSE merge_buckets([ n \in DOMAIN d \cup {target} |->
                          IF n = target THEN EmptyTable ELSE d[n] ],
                       DOMAIN d, table_prefix, target, start_bucket, end_bucket,
                       << [ op |-> "list_tables" ],
                          [ op |-> "open_table", name |-> target ] >>)

\* merge() that starts at bucket 0 whatever its start_bucket
merge_from_first_bucket(d, table_prefix, target, start_bucket, end_bucket) ==
    IF start_bucket > end_bucket
    THEN [ db |-> d,
           res |-> Err([ error |-> "InvalidRange", start |-> start_bucket,
                         end |-> end_bucket ]),
           log |-> <<>> ]
    ELSE merge_buckets([ n \in DOMAIN d \cup {target} |->
                          IF n \in DOMAIN d THEN d[n] ELSE EmptyTable ],
                       DOMAIN d, table_prefix, target, 0, end_bucket,
                       << [ op |-> "list_tables" ],
                          [ op |-> "open_table", name |-> target ] >>)

\* merge(): the database after the call, its result, and the reads and writes
\* it made, in order; open_table() creates the target when it does not exist
merge(d, table_prefix, target, start_bucket, end_bucket) ==
    IF start_bucket > end_bucket
    THEN [ db |-> d,
           res |-> Err([ error |-> "InvalidRange", start |-> start_bucket,
                         end |-> end_bucket ]),
           log |-> <<>> ]
    ELSE LET existing_tables == DOMAIN d
             opened == [ n \in DOMAIN d \cup {target} |->
                            IF n \in DOMAIN d THEN d[n] ELSE EmptyTable ]
         IN  merge_buckets(opened, existing_tables, table_prefix, target,
                           start_bucket, end_bucket,
                           << [ op |-> "list_tables" ],
                              [ op |-> "open_table", name |-> target ] >>)

\* bucket_range_from_tables() with the least number taken for the greatest too
bucket_range_least_only(d, table_prefix) ==
    LET prefix == table_prefix \o << "_" >>
        named == { name \in DOMAIN d :
                      /\ strip_prefix(name, prefix) # None
                      /\ parse_u64(strip_prefix(name, prefix)[1]).kind = "ok" }
        buckets == { parse_u64(strip_prefix(name, prefix)[1]).val : name \in named }
        least == CHOOSE b \in buckets : \A other \in buckets : b <= other
    IN  IF buckets = {} THEN None ELSE Some(<< least, least >>)

\* bucket_range_from_tables(): the least and the greatest number that follows
\* the prefix in the name of a table
bucket_range_from_tables(d, table_prefix) ==
    LET prefix == table_prefix \o << "_" >>
        named == { name \in DOMAIN d :
                      /\ strip_prefix(name, prefix) # None
                      /\ parse_u64(strip_prefix(name, prefix)[1]).kind = "ok" }
        buckets == { parse_u64(strip_prefix(name, prefix)[1]).val : name \in named }
    IN  IF buckets = {}
        THEN None
        ELSE Some(<< CHOOSE b \in buckets : \A other \in buckets : b <= other,
                     CHOOSE b \in buckets : \A other \in buckets : b >= other >>)

\* merge_all()
merge_all(d, table_prefix, target) ==
    LET range == bucket_range_from_tables(d, table_prefix)
    IN  IF range = None
        THEN [ db |-> d, res |-> Ok(<<>>), log |-> << [ op |-> "list_tables" ] >> ]
        ELSE LET merged == merge(d, table_prefix, target, range[1][1], range[1][2])
             IN  [ merged EXCEPT !.log = << [ op |-> "list_tables" ] >> \o merged.log ]

----------------------------------------------------------------------------
\* A database of bucket tables, and the calls that merge them.

\* bucket tables 0..MaxMergeBucket may exist
MaxMergeBucket == 2

\* the prefix of the builder, and the table the buckets are merged into
TablePrefix == << "b" >>
TargetName == << "t" >>

\* tables the builder did not make: one of another prefix, and one whose name
\* has the prefix and a number that is not written as the builder writes it
OtherTables == { << "c", "_", "1" >>, << "b", "_", "0", "1" >> }
OtherTableChoices == { {}, OtherTables }

\* a bucket table does not exist, or holds some of the keys
BucketTableChoices == { None, Some({}), Some({1}), Some({1, 2}) }
\* the target does not exist, or holds key 1
TargetChoices == { None, Some({1}) }

\* the value a bucket table holds for a key
BucketValue(bucket, key) == << "v" >> \o ToDecimal(bucket) \o << "k" >> \o ToDecimal(key)

MergeDb(cells, others, target_keys) ==
    LET present == { b \in DOMAIN cells : cells[b] # None }
        names == { bucket_table_name(TablePrefix, b) : b \in present }
                 \cup others
                 \cup (IF target_keys = None THEN {} ELSE {TargetName})
    IN  [ n \in names |->
            IF n = TargetName
            THEN [ k \in target_keys[1] |-> << "t" >> ]
            ELSE IF n \in others
            THEN [ k \in {1} |-> << "o" >> ]
            ELSE LET b == CHOOSE x \in present : bucket_table_name(TablePrefix, x) = n
                 IN  [ k \in cells[b][1] |-> BucketValue(b, k) ] ]

InitMerge ==
    /\ NoPartition
    /\ NoIterator
    /\ NoCopy
    /\ NoRoaring
    /\ NoFunction
    /\ \E cells \in [ 0..MaxMergeBucket -> BucketTableChoices ],
          others \in OtherTableChoices, target_keys \in TargetChoices :
          db = MergeDb(cells, others, target_keys)
    /\ mlast = [ op |-> "new" ]

\* builder.merge(txn, target, start_bucket, end_bucket)
Merge ==
    /\ iter.state = "none"
    /\ \E start_bucket \in 0..MaxMergeBucket, end_bucket \in 0..MaxMergeBucket :
          LET merged == merge(db, TablePrefix, TargetName, start_bucket, end_bucket)
          IN  /\ db' = merged.db
              /\ mlast' = [ op |-> "merge",
                            start_bucket |-> start_bucket,
                            end_bucket |-> end_bucket,
                            before |-> db,
                            res |-> merged.res,
                            log |-> merged.log ]
    /\ UNCHANGED <<pvars, ivars, cvars, rvars, fvars>>

\* builder.merge_all(txn, target)
MergeAll ==
    /\ iter.state = "none"
    /\ LET merged == merge_all(db, TablePrefix, TargetName)
       IN  /\ db' = merged.db
           /\ mlast' = [ op |-> "merge_all",
                         before |-> db,
                         res |-> merged.res,
                         log |-> merged.log ]
    /\ UNCHANGED <<pvars, ivars, cvars, rvars, fvars>>

\* one of the four constructors is called on the database as it was made: it
\* reads and writes nothing, and its result is kept in `iter`
NewIterator ==
    /\ iter.state = "none"
    /\ mlast.op = "new"
    /\ \E kind \in IteratorKinds, bucket_size \in BucketSizes,
          start_sequence \in SmallSequences, end_sequence \in SmallSequences :
          LET made == iterator_new(kind, bucket_size, IterBaseKey,
                                   start_sequence, end_sequence)
          IN  iter' = [ kind |-> kind,
                        bucket_size |-> bucket_size,
                        start_sequence |-> start_sequence,
                        end_sequence |-> end_sequence,
                        state |-> IF made.kind = "ok" THEN "live" ELSE "rejected",
                        self |-> IF made.kind = "ok" THEN made.val ELSE made.err ]
    /\ UNCHANGED <<bstore, frontOut, backOut, lastCall, noneCalls, faults, pvars, mvars, cvars, rvars, fvars>>

NextMerge ==
    \/ Merge
    \/ MergeAll
    \/ NewIterator

SpecMerge == InitMerge /\ [][NextMerge]_vars

----------------------------------------------------------------------------
\* Claims about the table buckets.

InvalidRange(start, end) == Err([ error |-> "InvalidRange", start |-> start, end |-> end ])

\* the state of C15: what the last constructor and the last merge returned
RangeChecked ==
    /\ iter.state \in { "live", "rejected" } =>
          /\ iter.state = "rejected" <=> WLess(iter.end_sequence, iter.start_sequence)
          /\ iter.state = "rejected" =>
                Err(iter.self) = InvalidRange(iter.start_sequence, iter.end_sequence)
    /\ mlast.op = "merge" =>
          /\ mlast.start_bucket > mlast.end_bucket =>
                /\ mlast.res = InvalidRange(mlast.start_bucket, mlast.end_bucket)
                /\ mlast.log = <<>>
                /\ db = mlast.before
          /\ mlast.start_bucket <= mlast.end_bucket =>
                /\ mlast.res.kind = "ok"
                /\ mlast.log # <<>>

\* C15: a constructor of any of the four range iterators returns InvalidRange
\* exactly when start_sequence > end_sequence, and merge returns InvalidRange
\* exactly when start_bucket > end_bucket; the rejected call has read and
\* written nothing, and a request with start = end is accepted.
C15_InvertedRangeRejected ==
    /\ []RangeChecked
    /\ [][iter'.state = "rejected" => db' = db /\ bstore' = bstore /\ mlast' = mlast]_vars

C15_Witness ==
    /\ mlast.op = "merge"
    /\ mlast.start_bucket > mlast.end_bucket
    /\ mlast.res.kind = "err"
    /\ mlast.before # EmptyTable

\* the last call was a merge that succeeded
Merged == mlast.op = "merge" /\ mlast.res.kind = "ok"

\* the table of a name in a database, None when it does not exist
TableOf(d, name) == IF name \in DOMAIN d THEN Some(d[name]) ELSE None

\* the value a table of a database holds for a key, None when it holds none
ValueOf(d, name, key) ==
    IF name \in DOMAIN d /\ key \in DOMAIN d[name] THEN Some(d[name][key]) ELSE None

\* the ids of the range that had a bucket table before the last merge
MergedBuckets ==
    { b \in mlast.start_bucket..mlast.end_bucket :
         bucket_table_name(TablePrefix, b) \in DOMAIN mlast.before }

\* the left fold of the merge law over the values the bucket tables
\* bucket..end_bucket of a database hold for a key
RECURSIVE FoldLeft(_, _, _, _, _)
FoldLeft(d, key, acc, bucket, end_bucket) ==
    IF bucket > end_bucket
    THEN acc
    ELSE LET incoming == ValueOf(d, bucket_table_name(TablePrefix, bucket), key)
         IN  FoldLeft(d, key,
                      IF incoming = None
                      THEN acc
                      ELSE Some(MergeableValue_merge(acc, incoming[1])),
                      bucket + 1, end_bucket)

MergeKeys == { 1, 2 }

\* C16: after a successful merge, the target holds for every key the left fold
\* of the merge law over the key's values in the bucket tables of the range, in
\* ascending bucket order, starting from the value the target held before the
\* call (None when it held none); a key of one bucket only that the target did
\* not hold is copied unchanged.
C16_LeftFold ==
    Merged =>
       /\ TargetName \in DOMAIN db
       /\ \A key \in MergeKeys :
             /\ ValueOf(db, TargetName, key) =
                   FoldLeft(mlast.before, key, ValueOf(mlast.before, TargetName, key),
                            mlast.start_bucket, mlast.end_bucket)
             /\ \A b \in MergedBuckets :
                   LET name == bucket_table_name(TablePrefix, b)
                       only == \A other \in MergedBuckets \ {b} :
                                  ValueOf(mlast.before,
                                          bucket_table_name(TablePrefix, other), key) = None
                   IN  (/\ ValueOf(mlast.before, name, key) # None
                        /\ ValueOf(mlast.before, TargetName, key) = None
                        /\ only)
                       => ValueOf(db, TargetName, key) = ValueOf(mlast.before, name, key)

C16_Witness ==
    /\ Merged
    /\ mlast.start_bucket = 0
    /\ mlast.end_bucket = 2
    /\ ValueOf(mlast.before, TargetName, 1) = Some(<< "t" >>)
    /\ ValueOf(db, TargetName, 1)
          = Some(<< "t", "+", "v", "0", "k", "1", "+", "v", "2", "k", "1" >>)
    /\ ValueOf(db, TargetName, 2) = Some(<< "v", "2", "k", "2" >>)

\* the positions of the log of the last call at which a table is deleted
Deletions == { i \in 1..Len(mlast.log) : mlast.log[i].op = "delete_table" }

\* the positions of the log at which an entry of a bucket table is written
\* into the target
InsertsFrom(name) ==
    { i \in 1..Len(mlast.log) : mlast.log[i].op = "insert" /\ mlast.log[i].from = name }

\* C17: after a successful merge no bucket table with an id of the range
\* exists, and a bucket table is deleted only after every entry it held has
\* been written into the target.
C17_DrainedThenDeleted ==
    Merged =>
       /\ \A b \in mlast.start_bucket..mlast.end_bucket :
             bucket_table_name(TablePrefix, b) \notin DOMAIN db
       /\ \A i \in Deletions :
             LET name == mlast.log[i].name
             IN  /\ name \in DOMAIN mlast.before
                 /\ \A key \in DOMAIN mlast.before[name] :
                       \E j \in InsertsFrom(name) : j < i /\ mlast.log[j].key = key
                 /\ \A j \in InsertsFrom(name) : j < i

C17_Witness ==
    /\ Merged
    /\ mlast.start_bucket < mlast.end_bucket
    /\ \E i \in Deletions, j \in Deletions :
          /\ i < j
          /\ DOMAIN mlast.before[mlast.log[i].name] = { 1, 2 }
          /\ DOMAIN mlast.before[mlast.log[j].name] = { 1 }
          /\ mlast.log[i].name \notin DOMAIN db
          /\ mlast.log[j].name \notin DOMAIN db

\* the names of a database that the builder gives to a bucket table
BucketTablesOf(d) ==
    { name \in DOMAIN d :
         /\ strip_prefix(name, TablePrefix \o << "_" >>) # None
         /\ parse_u64(strip_prefix(name, TablePrefix \o << "_" >>)[1]).kind = "ok"
         /\ name = bucket_table_name(TablePrefix,
                      parse_u64(strip_prefix(name, TablePrefix \o << "_" >>)[1]).val) }

\* C18: a merge over a valid range succeeds whichever ids of the range have no
\* table; when no bucket table of the range exists, and for merge_all when no
\* bucket table of the prefix exists, the call leaves the database as it was:
\* the same tables, the target included, with the same contents.
C18_NothingToMergeIsNoOp ==
    /\ mlast.op = "merge" /\ mlast.start_bucket <= mlast.end_bucket =>
          /\ mlast.res.kind = "ok"
          /\ MergedBuckets = {} => db = mlast.before
    /\ mlast.op = "merge_all" /\ BucketTablesOf(mlast.before) = {} =>
          /\ mlast.res.kind = "ok"
          /\ db = mlast.before

\* the ids of the bucket tables of a database
BucketIdsOf(d) ==
    { parse_u64(strip_prefix(name, TablePrefix \o << "_" >>)[1]).val :
         name \in BucketTablesOf(d) }

\* C19: merge_all on a database with bucket tables of the prefix, contiguous
\* or not, succeeds and leaves the database that merge over the range from
\* the smallest to the largest existing bucket id leaves; no bucket table of
\* the prefix remains.
C19_MergeAllIsMergeOverAll ==
    mlast.op = "merge_all" /\ BucketIdsOf(mlast.before) # {} =>
       LET ids == BucketIdsOf(mlast.before)
           smallest == CHOOSE b \in ids : \A other \in ids : b <= other
           largest == CHOOSE b \in ids : \A other \in ids : b >= other
       IN  /\ mlast.res.kind = "ok"
           /\ db = merge(mlast.before, TablePrefix, TargetName, smallest, largest).db
           /\ BucketTablesOf(db) = {}
           /\ \A key \in MergeKeys :
                 ValueOf(db, TargetName, key) =
                    FoldLeft(mlast.before, key, ValueOf(mlast.before, TargetName, key),
                             smallest, largest)

C19_Witness ==
    /\ mlast.op = "merge_all"
    /\ BucketIdsOf(mlast.before) = { 0, 2 }
    /\ ValueOf(mlast.before, TargetName, 1) = None
    /\ ValueOf(db, TargetName, 1) = Some(<< "v", "0", "k", "1", "+", "v", "2", "k", "1" >>)
    /\ BucketTablesOf(db) = {}

----------------------------------------------------------------------------
\* dbcopy/mod.rs: copying the tables of a plan from one database to another.

\* A table of a database is its kind and its rows, a set of <<key, value>>; a
\* step of a plan is the kind and the name of its definition.
CopyKinds == { "Table", "Multimap" }

\* impl fmt::Display for CopyKind
CopyKind_fmt(kind) == IF kind = "Table" THEN "table" ELSE "multimap table"

\* CopyStep::display_name(): format!("{} {}", self.kind(), self.name())
display_name(step) == << CopyKind_fmt(step.kind), " ", step.name >>

\* open_table() / open_multimap_table() on a read transaction
open_for_read(d, step) ==
    IF step.name \notin DOMAIN d
    THEN Err("TableDoesNotExist")
    ELSE IF d[step.name].kind # step.kind
    THEN Err(IF step.kind = "Table" THEN "TableIsMultimap" ELSE "TableIsNotMultimap")
    ELSE Ok(d[step.name])

\* a pre-flight that flags a table only when it holds rows
preflight_rows_only(step, d) ==
    LET opened == open_for_read(d, step)
    IN  IF opened.kind = "ok"
        THEN Ok(opened.val.rows # {})
        ELSE IF opened.err = "TableDoesNotExist"
        THEN Ok(FALSE)
        ELSE Err(opened.err)

\* CopyStep::preflight()
preflight(step, d) ==
    LET opened == open_for_read(d, step)
    IN  IF opened.kind = "ok"
        THEN Ok(TRUE)
        ELSE IF opened.err = "TableDoesNotExist"
        THEN Ok(FALSE)
        ELSE Err(opened.err)

\* insert() that keeps one value for a key in a table of either kind
insert_all_one_value(kind, rows, incoming) ==
    rows \cup { CHOOSE r \in incoming : r[1] = k : k \in { x[1] : x \in incoming } }

\* insert() of every row of a source table: a plain table keeps one value for
\* a key, a multimap table keeps them all
insert_all(kind, rows, incoming) ==
    IF kind = "Table"
    THEN { r \in rows : \A i \in incoming : i[1] # r[1] } \cup incoming
    ELSE rows \cup incoming

\* CopyStep::copy(): its result, and the tables of the write transaction after
\* it; open_table() on the write transaction creates the table it does not
\* find, and a failing insert() ends the step with the table opened
copy_step(step, src, txn, failing) ==
    LET source_table == open_for_read(src, step)
    IN  IF source_table.kind = "err"
        THEN [ res |-> Err([ error |-> "SourceTableOpenFailed",
                             msg |-> << display_name(step), source_table.err >> ]),
               txn |-> txn ]
        ELSE IF step.name \in DOMAIN txn /\ txn[step.name].kind # step.kind
        THEN [ res |-> Err([ error |-> "DestinationTableOpenFailed",
                             msg |-> << display_name(step) >> ]),
               txn |-> txn ]
        ELSE LET rows == IF step.name \in DOMAIN txn THEN txn[step.name].rows ELSE {}
                 fails == failing /\ source_table.val.rows # {}
                 written == [ kind |-> step.kind,
                              rows |-> IF fails
                                       THEN rows
                                       ELSE insert_all(step.kind, rows, source_table.val.rows) ]
             IN  [ res |-> IF fails
                           THEN Err([ error |-> "TableCopyFailed",
                                      msg |-> << display_name(step) >> ])
                           ELSE Ok(<<>>),
                   txn |-> [ n \in DOMAIN txn \cup {step.name} |->
                               IF n = step.name THEN written ELSE txn[n] ] ]

\* the first loop stopped at the first conflict
RECURSIVE preflight_steps_first_only(_, _, _)
preflight_steps_first_only(steps, d, conflicts) ==
    IF steps = <<>>
    THEN Ok(conflicts)
    ELSE LET checked == preflight(Head(steps), d)
         IN  IF checked.kind = "err"
             THEN Err([ error |-> "DestinationCheckFailed",
                        msg |-> << display_name(Head(steps)), checked.err >> ])
             ELSE IF checked.val
             THEN Ok(<< display_name(Head(steps)) >>)
             ELSE preflight_steps_first_only(Tail(steps), d, conflicts)

\* the first loop of copy_database(): the conflicts, or the first failed check
RECURSIVE preflight_steps(_, _, _)
preflight_steps(steps, d, conflicts) ==
    IF steps = <<>>
    THEN Ok(conflicts)
    ELSE LET checked == preflight(Head(steps), d)
         IN  IF checked.kind = "err"
             THEN Err([ error |-> "DestinationCheckFailed",
                        msg |-> << display_name(Head(steps)), checked.err >> ])
             ELSE preflight_steps(Tail(steps), d,
                                  IF checked.val
                                  THEN Append(conflicts, display_name(Head(steps)))
                                  ELSE conflicts)

\* the second loop of copy_database(), inside the write transaction
\* (steps i.. of the plan; `failing` holds the steps whose insert() fails)
RECURSIVE copy_steps(_, _, _, _, _)
copy_steps(steps, i, src, txn, failing) ==
    IF i > Len(steps)
    THEN [ res |-> Ok(<<>>), txn |-> txn ]
    ELSE LET written == copy_step(steps[i], src, txn, i \in failing)
         IN  IF written.res.kind = "err"
             THEN written
             ELSE copy_steps(steps, i + 1, src, written.txn, failing)

\* a write transaction dropped without commit() with its writes kept
dropped_keeps_writes(committed, txn) == txn

\* the committed tables after a write transaction is dropped without commit(),
\* or after its commit() has failed
dropped(committed, txn) == committed

\* the pre-flight of copy_database(): Ok, or the error it returns
copy_preflight(dst, p) ==
    LET conflicts == preflight_steps(p, dst, <<>>)
    IN  IF conflicts.kind = "err"
        THEN conflicts
        ELSE IF conflicts.val # <<>>
        THEN Err([ error |-> "DestinationTablesExist", names |-> conflicts.val ])
        ELSE Ok(<<>>)

\* copy_database() from begin_write() on: its result and the committed
\* destination after it
copy_write(src, dst, p, failures) ==
    IF [ at |-> "begin_write", step |-> 0 ] \in failures
    THEN [ res |-> Err([ error |-> "TransactionFailed" ]), destination |-> dst ]
    ELSE LET written == copy_steps(p, 1, src, dst,
                                   { f.step : f \in { x \in failures : x.at = "insert" } })
         IN  IF written.res.kind = "err"
             THEN [ res |-> written.res, destination |-> dropped(dst, written.txn) ]
             ELSE IF [ at |-> "commit", step |-> 0 ] \in failures
             THEN [ res |-> Err([ error |-> "CommitFailed" ]),
                    destination |-> dropped(dst, written.txn) ]
             ELSE [ res |-> Ok(<<>>), destination |-> written.txn ]

----------------------------------------------------------------------------
\* Two databases and a plan, and the calls that copy one into the other.

\* a plan has at most this many steps
MaxPlan == 2

CopyNames == { "a", "b" }
CopySteps == [ kind : CopyKinds, name : CopyNames ]

\* a table of the source: missing, or of either kind, empty or not
SourceTableChoices ==
    { None,
      Some([ kind |-> "Table", rows |-> {} ]),
      Some([ kind |-> "Table", rows |-> { <<1, "s">>, <<2, "s">> } ]),
      Some([ kind |-> "Multimap", rows |-> { <<1, "s">>, <<1, "t">> } ]) }

\* a table of the destination: missing, or of either kind, empty or not
DestinationTableChoices ==
    { None,
      Some([ kind |-> "Table", rows |-> {} ]),
      Some([ kind |-> "Table", rows |-> { <<1, "d">> } ]),
      Some([ kind |-> "Multimap", rows |-> { <<1, "d">> } ]) }

\* the database that holds the chosen tables
DatabaseOf(choice) ==
    [ n \in { x \in DOMAIN choice : choice[x] # None } |-> choice[n][1] ]

\* nothing fails, or one step of copy_database does: begin_write(), the
\* insert() of one step of the plan, or commit()
CopyFaultChoices ==
    { {} }
    \cup { { [ at |-> "begin_write", step |-> 0 ] }, { [ at |-> "commit", step |-> 0 ] } }
    \cup { { [ at |-> "insert", step |-> i ] } : i \in 1..MaxPlan }

Plans == UNION { [ 1..n -> CopySteps ] : n \in 0..MaxPlan }

InitCopy ==
    /\ NoPartition
    /\ NoIterator
    /\ NoMerge
    /\ NoRoaring
    /\ NoFunction
    /\ \E choice \in [ CopyNames -> SourceTableChoices ] : source = DatabaseOf(choice)
    /\ \E choice \in [ CopyNames -> DestinationTableChoices ] : destination = DatabaseOf(choice)
    /\ plan \in Plans
    /\ copied = [ op |-> "new" ]
    /\ copyFaults \in CopyFaultChoices

\* copy_database(&source, &destination, &plan) is three steps beside the other
\* writers of the destination: the pre-flight reads a snapshot (begin_read)
\* and drops it, the write transaction begins later (begin_write), and the
\* base store lets another write transaction commit in between.

\* what the other writer leaves in a table it creates or fills
OtherWriterRows == { {}, { <<1, "w">> } }

\* copy_database() up to drop(destination_read): it returns the error of the
\* pre-flight, or goes on; `start` is the destination its snapshot shows
CopyPreflight ==
    /\ copied.op = "new"
    /\ LET checked == copy_preflight(destination, plan)
       IN  copied' = IF checked.kind = "err"
                     THEN [ op |-> "copy_database", start |-> destination,
                            before |-> destination, res |-> checked, raced |-> {} ]
                     ELSE [ op |-> "preflight", start |-> destination, raced |-> {} ]
    /\ UNCHANGED <<source, destination, plan, copyFaults, pvars, ivars, mvars, rvars, fvars>>

\* another write transaction opens a table, which creates the table it does
\* not find, insert()s rows into it and commits; insert() into a plain table
\* replaces the value the key had
OtherWriterCommits ==
    /\ copied.op = "preflight"
    /\ copied.raced = {}
    /\ \E name \in CopyNames, kind \in CopyKinds, rows \in OtherWriterRows :
          /\ name \in DOMAIN destination => destination[name].kind = kind
          /\ destination' =
                TableInsert(destination, name,
                            [ kind |-> kind,
                              rows |-> insert_all(kind,
                                                  IF name \in DOMAIN destination
                                                  THEN destination[name].rows ELSE {},
                                                  rows) ])
          /\ copied' = [ copied EXCEPT !.raced = { name } ]
    /\ UNCHANGED <<source, plan, copyFaults, pvars, ivars, mvars, rvars, fvars>>

\* copy_database() from begin_write() to its return; `before` is the
\* destination its write transaction begins on
CopyWrite ==
    /\ copied.op = "preflight"
    /\ LET done == copy_write(source, destination, plan, copyFaults)
       IN  /\ destination' = done.destination
           /\ copied' = [ op |-> "copy_database", start |-> copied.start,
                          before |-> destination, res |-> done.res,
                          raced |-> copied.raced ]
    /\ UNCHANGED <<source, plan, copyFaults, pvars, ivars, mvars, rvars, fvars>>

NextCopy ==
    \/ CopyPreflight
    \/ OtherWriterCommits
    \/ CopyWrite

SpecCopy == InitCopy /\ [][NextCopy]_vars

----------------------------------------------------------------------------
\* Claims about the database copy.

Copied == copied.op = "copy_database"

\* the table of a step exists in a database / its name is taken by a table of
\* the other kind
ExistsIn(d, step) == step.name \in DOMAIN d /\ d[step.name].kind = step.kind
OtherKindIn(d, step) == step.name \in DOMAIN d /\ d[step.name].kind # step.kind

\* "<kind> <name>" for the steps of a plan whose table exists, in plan order
RECURSIVE ConflictNames(_, _)
ConflictNames(d, steps) ==
    IF steps = <<>>
    THEN <<>>
    ELSE (IF ExistsIn(d, Head(steps))
          THEN << << IF Head(steps).kind = "Table" THEN "table" ELSE "multimap table",
                     " ", Head(steps).name >> >>
          ELSE <<>>)
         \o ConflictNames(d, Tail(steps))

SomeExists == \E i \in 1..Len(plan) : ExistsIn(copied.start, plan[i])
SomeOtherKind == \E i \in 1..Len(plan) : OtherKindIn(copied.start, plan[i])

\* C20 as stated: when a table of the plan exists in the destination,
\* copy_database returns DestinationTablesExist with the "<kind> <name>" of
\* every planned table that exists, in plan order, and leaves the destination
\* as it was.
C20_ConflictsListed ==
    Copied /\ SomeExists =>
       /\ copied.res = Err([ error |-> "DestinationTablesExist",
                             names |-> ConflictNames(copied.start, plan) ])
       /\ destination = copied.start

\* C20 as the code has it: the same, provided no planned name is taken in the
\* destination by a table of the other kind; when one is, copy_database
\* returns DestinationCheckFailed for the first such step, whatever else
\* exists, and the destination is left as it was all the same.
C20_ConflictsListedUnlessCheckFails ==
    /\ Copied /\ SomeExists /\ ~SomeOtherKind =>
          /\ copied.res = Err([ error |-> "DestinationTablesExist",
                                names |-> ConflictNames(copied.start, plan) ])
          /\ destination = copied.start
    /\ Copied /\ SomeOtherKind =>
          /\ copied.res.kind = "err"
          /\ copied.res.err.error = "DestinationCheckFailed"
          /\ \E i \in 1..Len(plan) :
                /\ OtherKindIn(copied.start, plan[i])
                /\ \A j \in 1..i - 1 : ~OtherKindIn(copied.start, plan[j])
                /\ copied.res.err.msg[1] =
                      << IF plan[i].kind = "Table" THEN "table" ELSE "multimap table",
                         " ", plan[i].name >>
          /\ destination = copied.start

C20_Witness ==
    /\ Copied
    /\ Len(plan) = 2
    /\ ExistsIn(copied.start, plan[2])
    /\ plan[1].name \notin DOMAIN copied.start
    /\ ExistsIn(source, plan[1])
    /\ copied.res = Err([ error |-> "DestinationTablesExist",
                          names |-> << << "multimap table", " ", plan[2].name >> >> ])
    /\ plan[1].name \notin DOMAIN destination

\* no other write transaction has committed to the destination during the call
Alone == copied.raced = {}

\* C21: when copy_database returns an error, whichever it is, the committed
\* destination is exactly what it was before the call: no table and no row of
\* a step that had already been copied remains.
C21_NoPartialCopy ==
    Copied /\ Alone /\ copied.res.kind = "err" => destination = copied.start

\* the first step of a plan of two had copied its rows into the write
\* transaction when the commit failed, and nothing of it is in the destination
C21_Witness ==
    /\ Copied
    /\ Alone
    /\ Len(plan) = 2
    /\ ExistsIn(source, plan[1])
    /\ source[plan[1].name].rows # {}
    /\ plan[1].name \notin DOMAIN copied.start
    /\ copied.res.kind = "err"
    /\ copied.res.err.error = "CommitFailed"
    /\ destination = copied.start

PlannedNames == { plan[i].name : i \in 1..Len(plan) }

\* C22: when nothing fails in the base store, no planned name is in the
\* destination when copy_database is called and every planned table is in the
\* source, copy_database succeeds; every planned table of the destination
\* then has the kind and exactly the rows of the table of the source, and
\* every other table of the destination is as it was before the call.
C22_CopiesEveryRow ==
    /\ Copied
    /\ Alone
    /\ copyFaults = {}
    /\ \A i \in 1..Len(plan) :
          /\ plan[i].name \notin DOMAIN copied.start
          /\ ExistsIn(source, plan[i])
    => /\ copied.res = Ok(<<>>)
       /\ DOMAIN destination = DOMAIN copied.start \cup PlannedNames
       /\ \A n \in PlannedNames : destination[n] = source[n]
       /\ \A n \in DOMAIN copied.start \ PlannedNames :
             destination[n] = copied.start[n]

\* a multimap table with two values of one key was copied next to a table the
\* destination already held, with no other writer about
C22_Witness ==
    /\ Copied
    /\ Alone
    /\ copied.res = Ok(<<>>)
    /\ Len(plan) = 1
    /\ plan[1].kind = "Multimap"
    /\ plan[1].name \notin DOMAIN copied.start
    /\ destination[plan[1].name].rows = { <<1, "s">>, <<1, "t">> }
    /\ \E n \in DOMAIN copied.start : destination[n].rows = { <<1, "d">> }

Refused == copied.res.kind = "err" /\ copied.res.err.error = "DestinationTablesExist"

\* a planned table that exists in the destination before the call holds rows
SomeHoldsRows ==
    \E i \in 1..Len(plan) :
       ExistsIn(copied.start, plan[i]) /\ copied.start[plan[i].name].rows # {}

\* C23 as stated: the call is refused for conflicts exactly when a planned
\* table of the destination holds rows; planned tables that exist without rows
\* do not make it refuse.
C23_RefusedOnlyForRows ==
    Copied /\ ~SomeOtherKind => (Refused <=> SomeHoldsRows)

\* C23 as the code has it: the call is refused for conflicts exactly when a
\* planned table exists in the destination, whether it holds rows or not.
C23_RefusedForExistence ==
    Copied /\ ~SomeOtherKind => (Refused <=> SomeExists)

C23_Witness ==
    /\ Copied
    /\ Len(plan) = 1
    /\ ExistsIn(copied.start, plan[1])
    /\ copied.start[plan[1].name].rows = {}
    /\ ExistsIn(source, plan[1])
    /\ Refused
    /\ destination = copied.start

----------------------------------------------------------------------------
\* roaring/value.rs, encoding/key.rs: the stored form of a bitmap.

\* A bitmap is the set of its members.  The bytes the roaring crate writes for
\* a bitmap are stood for by the number of members followed by the members in
\* ascending order; anything else is not the image of a bitmap.
VALUE_VERSION == 1

\* RoaringTreemap::serialize_into()
serialize_into(bitmap) == << Cardinality(bitmap) >> \o KeysAscending(bitmap)

\* RoaringTreemap::deserialize_from()
deserialize_from(bytes) ==
    IF \/ bytes = <<>>
       \/ bytes[1] # Len(bytes) - 1
       \/ \E i \in 2..Len(bytes) - 1 : bytes[i] >= bytes[i + 1]
    THEN Err("deserialize")
    ELSE Ok({ bytes[i] : i \in 2..Len(bytes) })

\* RoaringValue::encode_bitmap(): the version byte, then the bitmap
RoaringValue_encode(bitmap) == Ok(<< 1 >> \o serialize_into(bitmap))

\* RoaringValue::decode()
RoaringValue_decode(data) ==
    IF data = <<>>
    THEN Err([ error |-> "InvalidBitmap", msg |-> << "Empty data" >> ])
    ELSE LET version == data[1]
             bitmap_bytes == Tail(data)
         IN  IF version # 1
             THEN Err([ error |-> "InvalidBitmap",
                        msg |-> << "Unsupported version: ", version >> ])
             ELSE LET bitmap == deserialize_from(bitmap_bytes)
                  IN  IF bitmap.kind = "err"
                      THEN Err([ error |-> "SerializationFailed", msg |-> << bitmap.err >> ])
                      ELSE Ok(bitmap.val)

\* <RoaringValue as redb::Value>::from_bytes():
\*     RoaringValue::decode(data).unwrap_or_else(|_| RoaringValue::empty())
\* (wrapped in Ok so that the result has the shape of decode's)
RoaringValue_from_bytes(data) ==
    LET decoded == RoaringValue_decode(data)
    IN  IF decoded.kind = "ok" THEN Ok(decoded.val) ELSE Ok({})

\* <RoaringValue as redb::Value>::as_bytes():
\*     value.encode().unwrap_or_else(|_| Vec::new())
RoaringValue_as_bytes(value) ==
    LET encoded == RoaringValue_encode(value)
    IN  IF encoded.kind = "ok" THEN encoded.val ELSE <<>>

\* encoding::encode_roaring_value()
encode_roaring_value(roaring_bytes) == << VALUE_VERSION >> \o roaring_bytes

\* encoding::decode_roaring_value()
decode_roaring_value(encoded_value) ==
    IF encoded_value = <<>>
    THEN Err([ error |-> "InvalidValueEncoding", msg |-> << "Empty value" >> ])
    ELSE IF encoded_value[1] # VALUE_VERSION
    THEN Err([ error |-> "UnsupportedVersion", version |-> encoded_value[1] ])
    ELSE Ok(<< encoded_value[1], Tail(encoded_value) >>)

----------------------------------------------------------------------------
\* roaring/facade.rs, roaring/mod.rs: the operations on a table of RoaringValue.
\* `rows` is the table, key -> stored bytes; an operation that writes gives its
\* result and the table after it.

\* get_bitmap() that takes a missing key for an error
get_bitmap_missing_is_error(rows, key) ==
    IF key \in DOMAIN rows
    THEN RoaringValue_from_bytes(rows[key])
    ELSE Err("missing")

\* Table::get(key)?.value(): the stored bytes go through from_bytes()
get_bitmap(rows, key) ==
    IF key \in DOMAIN rows
    THEN RoaringValue_from_bytes(rows[key])
    ELSE Ok({})

contains_member(rows, key, member) ==
    LET bitmap == get_bitmap(rows, key)
    IN  IF bitmap.kind = "err" THEN bitmap ELSE Ok(member \in bitmap.val)

get_member_count(rows, key) ==
    LET bitmap == get_bitmap(rows, key)
    IN  IF bitmap.kind = "err" THEN bitmap ELSE Ok(Cardinality(bitmap.val))

iter_members(rows, key) ==
    LET bitmap == get_bitmap(rows, key)
    IN  IF bitmap.kind = "err" THEN bitmap ELSE Ok(KeysAscending(bitmap.val))

\* Table::insert(key, &value) and Table::remove(key)
Table_insert(rows, key, value) == TableInsert(rows, key, RoaringValue_as_bytes(value))
Table_remove(rows, key) == [ k \in DOMAIN rows \ {key} |-> rows[k] ]

Failed_read(rows, bitmap) == [ res |-> bitmap, rows |-> rows ]

\* insert_member() that stores the new member alone
insert_member_alone(rows, key, member) ==
    [ res |-> Ok(<<>>), rows |-> Table_insert(rows, key, {member}) ]

insert_member(rows, key, member) ==
    LET existing_bitmap == get_bitmap(rows, key)
    IN  IF existing_bitmap.kind = "err"
        THEN Failed_read(rows, existing_bitmap)
        ELSE [ res |-> Ok(<<>>),
               rows |-> Table_insert(rows, key, existing_bitmap.val \cup {member}) ]

\* replace_bitmap() that stores the bitmap it is given, empty or not
replace_bitmap_stores_empty(rows, key, bitmap) ==
    [ res |-> Ok(<<>>), rows |-> Table_insert(rows, key, bitmap) ]

replace_bitmap(rows, key, bitmap) ==
    [ res |-> Ok(<<>>),
      rows |-> IF bitmap = {}
               THEN Table_remove(rows, key)
               ELSE Table_insert(rows, key, bitmap) ]

remove_key(rows, key) == [ res |-> Ok(<<>>), rows |-> Table_remove(rows, key) ]

remove_member(rows, key, member) ==
    LET bitmap == get_bitmap(rows, key)
    IN  IF bitmap.kind = "err"
        THEN Failed_read(rows, bitmap)
        ELSE [ res |-> Ok(<<>>),
               rows |-> IF bitmap.val \ {member} = {}
                        THEN Table_remove(rows, key)
                        ELSE Table_insert(rows, key, bitmap.val \ {member}) ]

insert_members(rows, key, members) ==
    LET current_bitmap == get_bitmap(rows, key)
    IN  IF current_bitmap.kind = "err"
        THEN Failed_read(rows, current_bitmap)
        ELSE replace_bitmap(rows, key, current_bitmap.val \cup members)

remove_members(rows, key, members) ==
    LET current_bitmap == get_bitmap(rows, key)
    IN  IF current_bitmap.kind = "err"
        THEN Failed_read(rows, current_bitmap)
        ELSE replace_bitmap(rows, key, current_bitmap.val \ members)

clear_bitmap(rows, key) == remove_key(rows, key)

----------------------------------------------------------------------------
\* A table of RoaringValue, and the calls made on it.

\* members 0..MaxMember are inserted and removed
MaxMember == 2

Members == 0..MaxMember

\* the key types the facade is implemented for, and two keys of each
KeyTypes == { "&[u8]", "&str", "u64" }
KeysOf(key_type) ==
    IF key_type = "&[u8]" THEN { <<>>, << 117 >> }
    ELSE IF key_type = "&str" THEN { "", "user1" }
    ELSE { 0, 7 }

\* stored bytes that are not what as_bytes() writes: no byte at all, another
\* version in front of a bitmap, version 1 in front of something else
ForeignValues == { <<>>, << 2, 1, 0 >>, << 0 >>, << 1, 3, 0 >> }

\* the abstract map: a set of members for every key a writing call was made
\* on, and the empty set for the keys never written
Abstract(key) == IF key \in DOMAIN amap THEN amap[key] ELSE {}

\* the table is new and empty
InitRoaring ==
    /\ NoPartition
    /\ NoIterator
    /\ NoMerge
    /\ NoCopy
    /\ NoFunction
    /\ \E key_type \in KeyTypes :
          /\ rtable = [ key_type |-> key_type, rows |-> EmptyTable ]
          /\ amap = EmptyTable
    /\ rlast = [ op |-> "new" ]

\* the table holds, for some keys, values written by the facade or by something
\* else; the abstract map holds, for these keys, what the bytes decode to,
\* nothing for bytes that do not decode
InitRoaringForeign ==
    /\ NoPartition
    /\ NoIterator
    /\ NoMerge
    /\ NoCopy
    /\ NoFunction
    /\ \E key_type \in KeyTypes :
          \E stored \in [ KeysOf(key_type) ->
                           { None } \cup { Some(v) : v \in ForeignValues }
                           \cup { Some(RoaringValue_as_bytes({0})) } ] :
             /\ rtable = [ key_type |-> key_type,
                           rows |-> [ k \in { x \in KeysOf(key_type) : stored[x] # None }
                                        |-> stored[k][1] ] ]
             /\ amap = [ k \in { x \in KeysOf(key_type) : stored[x] # None } |->
                           IF RoaringValue_decode(stored[k][1]).kind = "ok"
                           THEN RoaringValue_decode(stored[k][1]).val
                           ELSE {} ]
    /\ rlast = [ op |-> "new" ]

ReadOps == { "get_bitmap", "contains_member", "get_member_count", "iter_members" }

\* a call that reads: the table is left alone; `again` tells that the call
\* before it was a read of the same key
Reads(op, key, member, res) ==
    /\ rlast' = [ op |-> op, key |-> key, members |-> member, before |-> rtable.rows,
                  res |-> res,
                  again |-> (rlast.op \in ReadOps /\ rlast.key = key) ]
    /\ UNCHANGED <<rtable, amap>>

\* a call that writes: the abstract map changes as the call asks when the call
\* succeeds
Writes(op, key, members, done, set) ==
    /\ rlast' = [ op |-> op, key |-> key, members |-> members, before |-> rtable.rows,
                  res |-> done.res, again |-> FALSE ]
    /\ rtable' = [ rtable EXCEPT !.rows = done.rows ]
    /\ amap' = IF done.res.kind = "ok" THEN TableInsert(amap, key, set) ELSE amap

GetBitmap ==
    /\ rtable.key_type # "none"
    /\ \E key \in KeysOf(rtable.key_type) :
          Reads("get_bitmap", key, {}, get_bitmap(rtable.rows, key))
    /\ UNCHANGED <<pvars, ivars, mvars, cvars, fvars>>

ContainsMember ==
    /\ rtable.key_type # "none"
    /\ \E key \in KeysOf(rtable.key_type), member \in Members :
          Reads("contains_member", key, {member}, contains_member(rtable.rows, key, member))
    /\ UNCHANGED <<pvars, ivars, mvars, cvars, fvars>>

GetMemberCount ==
    /\ rtable.key_type # "none"
    /\ \E key \in KeysOf(rtable.key_type) :
          Reads("get_member_count", key, {}, get_member_count(rtable.rows, key))
    /\ UNCHANGED <<pvars, ivars, mvars, cvars, fvars>>

IterMembers ==
    /\ rtable.key_type # "none"
    /\ \E key \in KeysOf(rtable.key_type) :
          Reads("iter_members", key, {}, iter_members(rtable.rows, key))
    /\ UNCHANGED <<pvars, ivars, mvars, cvars, fvars>>

InsertMember ==
    /\ rtable.key_type # "none"
    /\ \E key \in KeysOf(rtable.key_type), member \in Members :
          Writes("insert_member", key, {member},
                 insert_member(rtable.rows, key, member), Abstract(key) \cup {member})
    /\ UNCHANGED <<pvars, ivars, mvars, cvars, fvars>>

RemoveMember ==
    /\ rtable.key_type # "none"
    /\ \E key \in KeysOf(rtable.key_type), member \in Members :
          Writes("remove_member", key, {member},
                 remove_member(rtable.rows, key, member), Abstract(key) \ {member})
    /\ UNCHANGED <<pvars, ivars, mvars, cvars, fvars>>

InsertMembers ==
    /\ rtable.key_type # "none"
    /\ \E key \in KeysOf(rtable.key_type), members \in SUBSET Members :
          Writes("insert_members", key, members,
                 insert_members(rtable.rows, key, members), Abstract(key) \cup members)
    /\ UNCHANGED <<pvars, ivars, mvars, cvars, fvars>>

RemoveMembers ==
    /\ rtable.key_type # "none"
    /\ \E key \in KeysOf(rtable.key_type), members \in SUBSET Members :
          Writes("remove_members", key, members,
                 remove_members(rtable.rows, key, members), Abstract(key) \ members)
    /\ UNCHANGED <<pvars, ivars, mvars, cvars, fvars>>

ClearBitmap ==
    /\ rtable.key_type # "none"
    /\ \E key \in KeysOf(rtable.key_type) :
          Writes("clear_bitmap", key, {}, clear_bitmap(rtable.rows, key), {})
    /\ UNCHANGED <<pvars, ivars, mvars, cvars, fvars>>

ReplaceBitmap ==
    /\ rtable.key_type # "none"
    /\ \E key \in KeysOf(rtable.key_type), bitmap \in SUBSET Members :
          Writes("replace_bitmap", key, bitmap,
                 replace_bitmap(rtable.rows, key, bitmap), bitmap)
    /\ UNCHANGED <<pvars, ivars, mvars, cvars, fvars>>

NextRoaring ==
    \/ GetBitmap
    \/ ContainsMember
    \/ GetMemberCount
    \/ IterMembers
    \/ InsertMember
    \/ RemoveMember
    \/ InsertMembers
    \/ RemoveMembers
    \/ ClearBitmap

SpecRoaring == InitRoaring /\ [][NextRoaring]_vars

SpecRoaringForeign == InitRoaringForeign /\ [][NextRoaring]_vars

\* the calls that write, replace_bitmap among them, on a new table
NextRoaringWrites ==
    \/ InsertMember
    \/ RemoveMember
    \/ InsertMembers
    \/ RemoveMembers
    \/ ReplaceBitmap
    \/ ClearBitmap

SpecRoaringWrites == InitRoaring /\ [][NextRoaringWrites]_vars

----------------------------------------------------------------------------
\* The calls that read the stored value of their key
ReadingOps ==
    { "get_bitmap", "contains_member", "get_member_count", "iter_members",
      "insert_member", "remove_member", "insert_members", "remove_members" }

\* bytes that decode() refuses for their first byte: none, or another version
Unversioned(data) == data = <<>> \/ data[1] # VALUE_VERSION

\* The last call read, under its key, bytes without the supported version
ReadUnversioned ==
    /\ rlast.op \in ReadingOps
    /\ rlast.key \in DOMAIN rlast.before
    /\ Unversioned(rlast.before[rlast.key])

\* C24: decode() and decode_roaring_value() return an error for empty input
\* and for a first byte other than 1, and a call on a RoaringValue table that
\* reads such a stored value returns an error.
C24_DecodingFailsClosed ==
    /\ \A data \in ForeignValues :
          Unversioned(data) =>
             /\ RoaringValue_decode(data).kind = "err"
             /\ decode_roaring_value(data).kind = "err"
    /\ (ReadUnversioned => rlast.res.kind = "err")

----------------------------------------------------------------------------
\* the members of a set in the order a bitmap yields them
Ascending(set) == KeysAscending(set)

\* C25: after any sequence of insert_member, remove_member, insert_members,
\* remove_members and clear_bitmap calls on a table keyed by byte slices,
\* strings or u64, every one of which succeeds, get_bitmap(k) is the set the
\* abstract map holds for k, contains_member, get_member_count and
\* iter_members agree with it, and a call on one key leaves the bitmap of
\* every other key as it was.
C25_RefinesAbstractMap ==
    /\ [](/\ (rlast.op \notin { "none", "new" } => rlast.res.kind = "ok")
          /\ \A k \in KeysOf(rtable.key_type) :
                /\ get_bitmap(rtable.rows, k) = Ok(Abstract(k))
                /\ get_member_count(rtable.rows, k) = Ok(Cardinality(Abstract(k)))
                /\ iter_members(rtable.rows, k) = Ok(Ascending(Abstract(k)))
                /\ \A member \in Members :
                      contains_member(rtable.rows, k, member) = Ok(member \in Abstract(k)))
    /\ [][\A k \in KeysOf(rtable.key_type) :
             k # rlast'.key => get_bitmap(rtable'.rows, k) = get_bitmap(rtable.rows, k)]_vars

\* a member was removed from a key that holds another, while the other key
\* holds its own members
C25_Witness ==
    /\ rlast.op = "remove_member"
    /\ rlast.res.kind = "ok"
    /\ Cardinality(Abstract(rlast.key)) = 1
    /\ get_bitmap(rlast.before, rlast.key).val = Abstract(rlast.key) \cup rlast.members
    /\ rlast.members \cap Abstract(rlast.key) = {}
    /\ \E k \in KeysOf(rtable.key_type) :
          k # rlast.key /\ Cardinality(Abstract(k)) = 2

\* C26: a read of a key that no call has written returns the empty value and
\* no error (an empty bitmap from get_bitmap, false from contains_member, 0
\* from get_member_count, no member from iter_members) and leaves the table
\* unchanged, also when the read before it was a read of the same key.
C26_NeverWrittenReadsEmpty ==
    (rlast.op \in ReadOps /\ rlast.key \notin DOMAIN amap) =>
        /\ rlast.res = Ok(CASE rlast.op = "get_bitmap" -> {}
                            [] rlast.op = "contains_member" -> FALSE
                            [] rlast.op = "get_member_count" -> 0
                            [] rlast.op = "iter_members" -> <<>>)
        /\ rtable.rows = rlast.before
        /\ rlast.key \notin DOMAIN rtable.rows

\* a never-written key is read a second time while the other key holds members
C26_Witness ==
    /\ rlast.op = "contains_member"
    /\ rlast.again
    /\ rlast.key \notin DOMAIN amap
    /\ rlast.res = Ok(FALSE)
    /\ \E k \in DOMAIN rtable.rows : k # rlast.key

----------------------------------------------------------------------------
\* The last call was one of the two reads over all shards
ReadAllShards == last.op \in { "collect_all_segments", "enumerate_all_segments" }

\* no row of the segment table belongs to the key of the last call
NoStoredSegment ==
    LET prefix == U32BE(Len(last.key)) \o last.key
    IN  \A k \in DOMAIN segments :
           ~(Len(k) = Len(prefix) + 4 /\ SubSeq(k, 1, Len(prefix)) = prefix)

\* C27: collect_all_segments(key) and enumerate_all_segments(key) for a key
\* with no stored segment return an empty map and no error, also on a store
\* in which no segment has been written yet.
C27_AbsentKeyReadsEmpty ==
    (ReadAllShards /\ NoStoredSegment) => last.res = Ok(EmptyTable)

----------------------------------------------------------------------------
\* BucketedKey<u64> (buckets/key.rs).
\*
\* The u64 values here are the numbers themselves; the ones used lie below
\* 2^31 and differ in each of their four low bytes.

RECURSIVE ShiftRight(_, _)
\* n >> (8 * bytes)
ShiftRight(n, bytes) == IF bytes = 0 THEN n ELSE ShiftRight(n \div 256, bytes - 1)

\* u64::to_le_bytes: the least significant byte first
to_le_bytes(n) == [ i \in 1..8 |-> ShiftRight(n, i - 1) % 256 ]

\* u64::to_be_bytes: the most significant byte first
to_be_bytes(n) == [ i \in 1..8 |-> ShiftRight(n, 8 - i) % 256 ]

RECURSIVE FromLeBytes(_, _)
FromLeBytes(bytes, i) ==
    IF i > Len(bytes) THEN 0 ELSE bytes[i] + 256 * FromLeBytes(bytes, i + 1)

\* u64::from_le_bytes
from_le_bytes(bytes) == FromLeBytes(bytes, 1)

\* BucketedKey::new(base_key, bucket)
BucketedKey_new(base_key, bucket) == [ base_key |-> base_key, bucket |-> bucket ]

\* <BucketedKey<u64> as redb::Value>::as_bytes
BucketedKey_as_bytes(value) ==
    LET bucket_bytes == to_le_bytes(value.bucket)
        base_key_bytes == to_le_bytes(value.base_key)
    IN  bucket_bytes \o base_key_bytes

\* <BucketedKey<u64> as redb::Value>::from_bytes
BucketedKey_from_bytes(data) ==
    IF Len(data) < 16 THEN Panic
    ELSE LET bucket == from_le_bytes(SubSeq(data, 1, 8))
             base_key == from_le_bytes(SubSeq(data, 9, 16))
         IN  Ok(BucketedKey_new(base_key, bucket))

\* u64::cmp
Ord_cmp(a, b) == IF a < b THEN "Less" ELSE IF a = b THEN "Equal" ELSE "Greater"

\* compare() that orders by the bucket alone
BucketedKey_compare_bucket_only(data1, data2) ==
    IF Len(data1) < 16 \/ Len(data2) < 16 THEN Panic
    ELSE Ok(Ord_cmp(from_le_bytes(SubSeq(data1, 1, 8)), from_le_bytes(SubSeq(data2, 1, 8))))

\* <BucketedKey<u64> as redb::Key>::compare
BucketedKey_compare(data1, data2) ==
    IF Len(data1) < 16 \/ Len(data2) < 16 THEN Panic
    ELSE LET bucket1 == from_le_bytes(SubSeq(data1, 1, 8))
             bucket2 == from_le_bytes(SubSeq(data2, 1, 8))
         IN  IF Ord_cmp(bucket1, bucket2) = "Equal"
             THEN LET base1 == from_le_bytes(SubSeq(data1, 9, 16))
                      base2 == from_le_bytes(SubSeq(data2, 9, 16))
                  IN  Ok(Ord_cmp(base1, base2))
             ELSE Ok(Ord_cmp(bucket1, bucket2))

\* the order of two byte strings, byte by byte
LexCompare(a, b) ==
    IF LexLess(a, b) THEN "Less" ELSE IF a = b THEN "Equal" ELSE "Greater"

\* the u64 values keys are made of: 0, 1, 255, 256, 65536, 2^24 + 1, 2^31 - 1
U64Choices == { 0, 1, 255, 256, 65536, 16777217, 2147483647 }

KeyChoices == { BucketedKey_new(base_key, bucket) : base_key \in U64Choices, bucket \in U64Choices }

\* two keys are chosen
InitKey ==
    /\ NoPartition
    /\ NoIterator
    /\ NoMerge
    /\ NoCopy
    /\ NoRoaring
    /\ \E k1 \in KeyChoices, k2 \in KeyChoices :
          applied = [ op |-> "new", k1 |-> k1, k2 |-> k2, res |-> None ]

\* a function is applied to the chosen inputs
Applies(op, res) ==
    /\ applied' = [ applied EXCEPT !.op = op, !.res = res ]
    /\ UNCHANGED <<pvars, ivars, mvars, cvars, rvars>>

AsBytes ==
    /\ "k1" \in DOMAIN applied
    /\ Applies("as_bytes", BucketedKey_as_bytes(applied.k1))

\* the bytes of a key are read back
FromBytes ==
    /\ "k1" \in DOMAIN applied
    /\ Applies("from_bytes", BucketedKey_from_bytes(BucketedKey_as_bytes(applied.k1)))

\* fewer than 16 bytes are read
FromBytesShort ==
    /\ "k1" \in DOMAIN applied
    /\ Applies("from_bytes_short",
               BucketedKey_from_bytes(SubSeq(BucketedKey_as_bytes(applied.k1), 1, 15)))

Compare ==
    /\ "k1" \in DOMAIN applied
    /\ Applies("compare",
               BucketedKey_compare(BucketedKey_as_bytes(applied.k1),
                                   BucketedKey_as_bytes(applied.k2)))

NextKey ==
    \/ AsBytes
    \/ FromBytes
    \/ FromBytesShort
    \/ Compare

SpecKey == InitKey /\ [][NextKey]_vars

----------------------------------------------------------------------------
\* the order of two keys as pairs of numbers: bucket first, then base key
LogicalOrder(k1, k2) ==
    IF k1.bucket # k2.bucket THEN Ord_cmp(k1.bucket, k2.bucket)
    ELSE Ord_cmp(k1.base_key, k2.base_key)

\* C28: the bytes of a BucketedKey<u64> are the bucket as 8 big-endian bytes
\* followed by the base key, and comparing the bytes of two keys byte by byte
\* gives their logical order (bucket first, then base key).
C28_BytesOrderIsLogicalOrder ==
    applied.op = "as_bytes" =>
        /\ SubSeq(applied.res, 1, 8) = to_be_bytes(applied.k1.bucket)
        /\ LexCompare(applied.res, BucketedKey_as_bytes(applied.k2))
              = LogicalOrder(applied.k1, applied.k2)

\* C29: compare() on the bytes of two keys returns the order of the (bucket,
\* base_key) pairs compared as numbers, bucket first and base key only when
\* the buckets are equal; it returns Equal only for the same key, is
\* antisymmetric and transitive, and from_bytes(as_bytes(k)) is k.
C29_CompareIsLogicalOrder ==
    /\ applied.op = "compare" =>
          /\ applied.res = Ok(LogicalOrder(applied.k1, applied.k2))
          /\ (applied.res = Ok("Equal")) = (applied.k1 = applied.k2)
          /\ (applied.res = Ok("Less")) =
                (BucketedKey_compare(BucketedKey_as_bytes(applied.k2),
                                     BucketedKey_as_bytes(applied.k1)) = Ok("Greater"))
          /\ \A k3 \in KeyChoices :
                (/\ applied.res = Ok("Less")
                 /\ BucketedKey_compare(BucketedKey_as_bytes(applied.k2),
                                        BucketedKey_as_bytes(k3)) = Ok("Less"))
                => BucketedKey_compare(BucketedKey_as_bytes(applied.k1),
                                       BucketedKey_as_bytes(k3)) = Ok("Less")
    /\ applied.op = "from_bytes" => applied.res = Ok(applied.k1)

\* two keys of one bucket whose base keys are 256 and 1 were compared
C29_Witness ==
    /\ applied.op = "compare"
    /\ applied.k1.bucket = applied.k2.bucket
    /\ applied.k1.base_key = 256
    /\ applied.k2.base_key = 1
    /\ applied.res = Ok("Greater")

\* a key with the bucket 65536 was written and read back
C29_RoundTripWitness ==
    /\ applied.op = "from_bytes"
    /\ applied.k1.bucket = 65536
    /\ applied.k1.base_key = 255
    /\ applied.res = Ok(applied.k1)

----------------------------------------------------------------------------
\* select_shard (partition/shard.rs).
\*
\* A u64 hash is its eight bytes, the most significant first.
\*
\* xxh3_64 (xxhash_rust::xxh3) is a function from byte strings to u64 without
\* state or seed, the same in every run of the program; these are its values
\* on the byte strings that are hashed.  What a run of the program has of its
\* own (a seed drawn at start, as std's RandomState draws one) is stood for by
\* the number of the run.
xxh3_64(input) ==
    CASE input = << 97 >> ->
            << 230, 198, 50, 182, 30, 150, 78, 31 >>   \* 16629034431890738719
      [] input = << 97, 98 >> ->
            << 168, 115, 113, 156, 36, 213, 115, 92 >>   \* 12138170336140424028
      [] input = << 97, 98, 99 >> ->
            << 120, 175, 95, 148, 137, 47, 57, 80 >>   \* 8696274497037089104
      [] input = to_be_bytes(0) ->
            << 199, 123, 58, 187, 111, 135, 172, 217 >>   \* 14374147212387527897
      [] input = to_be_bytes(1) ->
            << 243, 107, 74, 26, 68, 247, 139, 243 >>   \* 17540194650411207667
      [] input = to_be_bytes(12345) ->
            << 168, 250, 232, 111, 39, 126, 182, 43 >>   \* 12176300106651186731

RECURSIVE BitXor(_, _)
\* a ^ b
BitXor(a, b) ==
    IF a = 0 THEN b
    ELSE IF b = 0 THEN a
    ELSE (((a % 2) + (b % 2)) % 2) + 2 * BitXor(a \div 2, b \div 2)

\* a ^ b on u64
XorU64(a, b) == [ i \in 1..8 |-> BitXor(a[i], b[i]) ]

\* h % n on u64, for n of 16 bits: the remainder is carried from byte to byte
RECURSIVE RemU64(_, _, _, _)
RemU64(h, n, i, carry) ==
    IF i > 8 THEN carry ELSE RemU64(h, n, i + 1, (carry * 256 + h[i]) % n)

\* select_shard() that takes shard 0 when there is no shard
select_shard_zero_shards(base_key, element_id, shard_count) ==
    IF shard_count = 0
    THEN Ok(0)
    ELSE Ok(RemU64(XorU64(xxh3_64(to_be_bytes(element_id)), xxh3_64(base_key)),
                   shard_count, 1, 0))

\* select_shard() whose hasher is seeded anew by every run of the program
select_shard_seeded(base_key, element_id, shard_count) ==
    IF shard_count = 0
    THEN Err(<<"InvalidShardCount", shard_count>>)
    ELSE LET seed == [ i \in 1..8 |-> IF i = 8 THEN applied.run ELSE 0 ]
             hasher == XorU64(XorU64(xxh3_64(to_be_bytes(element_id)), xxh3_64(base_key)),
                              seed)
         IN  Ok(RemU64(hasher, shard_count, 1, 0) % (U16Max + 1))

select_shard(base_key, element_id, shard_count) ==
    IF shard_count = 0
    THEN Err(<<"InvalidShardCount", shard_count>>)
    ELSE LET hasher == XorU64(xxh3_64(to_be_bytes(element_id)), xxh3_64(base_key))
             shard == RemU64(hasher, shard_count, 1, 0)
         IN  Ok(shard % (U16Max + 1))

\* the base keys, element ids and shard counts select_shard is called with
ShardBaseKeys == { << 97 >>, << 97, 98 >>, << 97, 98, 99 >> }
ElementIds == { 0, 1, 12345 }
ShardCounts == { 0, 1, 2, 16, U16Max }

\* the program is run this many times
MaxRuns == 2

\* the first run of the program
InitShard ==
    /\ NoPartition
    /\ NoIterator
    /\ NoMerge
    /\ NoCopy
    /\ NoRoaring
    /\ applied = [ op |-> "new", run |-> 1, args |-> <<>>, res |-> None,
                   called_in |-> 0, earlier |-> None ]

\* select_shard is called; `earlier` is what the call before it returned, and
\* the run it was made in, when it had the same arguments
SelectShard ==
    /\ "run" \in DOMAIN applied
    /\ \E base_key \in ShardBaseKeys, element_id \in ElementIds, shard_count \in ShardCounts :
          applied' = [ applied EXCEPT
                         !.op = "select_shard",
                         !.args = << base_key, element_id, shard_count >>,
                         !.res = select_shard(base_key, element_id, shard_count),
                         !.called_in = applied.run,
                         !.earlier = IF applied.args = << base_key, element_id, shard_count >>
                                     THEN Some([ res |-> applied.res,
                                                 run |-> applied.called_in ])
                                     ELSE None ]
    /\ UNCHANGED <<pvars, ivars, mvars, cvars, rvars>>

\* the program ends and is run again: nothing of the process is kept
Restart ==
    /\ "run" \in DOMAIN applied
    /\ applied.op = "select_shard"
    /\ applied.run < MaxRuns
    /\ applied' = [ applied EXCEPT !.run = @ + 1 ]
    /\ UNCHANGED <<pvars, ivars, mvars, cvars, rvars>>

NextShard ==
    \/ SelectShard
    \/ Restart

SpecShard == InitShard /\ [][NextShard]_vars

----------------------------------------------------------------------------
\* Constructors and bucket arithmetic (partition/config.rs, buckets/key.rs,
\* table_buckets/mod.rs).  The u64 values are the numbers themselves, below 2^31.

\* PartitionConfig::new() that lets a segment size of 0 through
PartitionConfig_new_any_segment_size(shard_count, segment_max_bytes, use_meta) ==
    IF shard_count = 0
    THEN Err(<<"InvalidShardCount", shard_count>>)
    ELSE Ok([ shard_count |-> shard_count, segment_max_bytes |-> segment_max_bytes,
              use_meta |-> use_meta ])

PartitionConfig_new(shard_count, segment_max_bytes, use_meta) ==
    IF shard_count = 0
    THEN Err(<<"InvalidShardCount", shard_count>>)
    ELSE IF segment_max_bytes = 0
    THEN Err(<<"InvalidSegmentSize", segment_max_bytes>>)
    ELSE Ok([ shard_count |-> shard_count, segment_max_bytes |-> segment_max_bytes,
              use_meta |-> use_meta ])

KeyBuilder_new(bucket_size) ==
    IF bucket_size = 0
    THEN Err(<<"InvalidBucketSize", bucket_size>>)
    ELSE Ok([ bucket_size |-> bucket_size ])

TableBucketBuilder_new(bucket_size, table_prefix) ==
    IF bucket_size = 0
    THEN Err(<<"InvalidBucketSize", bucket_size>>)
    ELSE Ok([ bucket_size |-> bucket_size, table_prefix |-> table_prefix,
              table_names |-> EmptyTable ])

\* bucketed_key() that rounds the bucket up
bucketed_key_rounds_up(builder, base_key, sequence) ==
    [ base_key |-> base_key,
      bucket |-> (sequence \div builder.bucket_size)
                 + (IF sequence % builder.bucket_size = 0 THEN 0 ELSE 1) ]

\* KeyBuilder::bucketed_key
bucketed_key(builder, base_key, sequence) ==
    LET bucket == sequence \div builder.bucket_size
    IN  [ base_key |-> base_key, bucket |-> bucket ]

\* TableBucketBuilder::bucket_for_sequence
bucket_for_sequence(builder, sequence) == sequence \div builder.bucket_size

\* what the constructors and the builders are called with
ShardCountChoices == { 0, 1, 16, U16Max }
SegmentSizeChoices == { 0, 1, 65536 }
BucketSizeChoices == { 0, 1, 2, 1000, 2147483647 }
SequenceChoices == { 0, 1, 500, 999, 1500, 2500, 2147483646, 2147483647 }
BuilderBaseKeys == { 0, 123 }

InitBuilder ==
    /\ NoPartition
    /\ NoIterator
    /\ NoMerge
    /\ NoCopy
    /\ NoRoaring
    /\ \E bucket_size \in BucketSizeChoices, sequence \in SequenceChoices,
          base_key \in BuilderBaseKeys :
          applied = [ op |-> "new", bucket_size |-> bucket_size, sequence |-> sequence,
                      base_key |-> base_key, config |-> <<>>, res |-> None ]

PartitionConfigNew ==
    /\ "bucket_size" \in DOMAIN applied
    /\ \E shard_count \in ShardCountChoices, segment_max_bytes \in SegmentSizeChoices,
          use_meta \in BOOLEAN :
          applied' = [ applied EXCEPT
                         !.op = "PartitionConfig::new",
                         !.config = << shard_count, segment_max_bytes, use_meta >>,
                         !.res = PartitionConfig_new(shard_count, segment_max_bytes, use_meta) ]
    /\ UNCHANGED <<pvars, ivars, mvars, cvars, rvars>>

KeyBuilderNew ==
    /\ "bucket_size" \in DOMAIN applied
    /\ Applies("KeyBuilder::new", KeyBuilder_new(applied.bucket_size))

TableBucketBuilderNew ==
    /\ "bucket_size" \in DOMAIN applied
    /\ Applies("TableBucketBuilder::new",
               TableBucketBuilder_new(applied.bucket_size, TablePrefix))

\* a key is made with a builder that was constructed
BucketedKeyOf ==
    /\ "bucket_size" \in DOMAIN applied
    /\ KeyBuilder_new(applied.bucket_size).kind = "ok"
    /\ Applies("bucketed_key",
               bucketed_key(KeyBuilder_new(applied.bucket_size).val,
                            applied.base_key, applied.sequence))

BucketForSequence ==
    /\ "bucket_size" \in DOMAIN applied
    /\ TableBucketBuilder_new(applied.bucket_size, TablePrefix).kind = "ok"
    /\ Applies("bucket_for_sequence",
               bucket_for_sequence(TableBucketBuilder_new(applied.bucket_size, TablePrefix).val,
                                   applied.sequence))

NextBuilder ==
    \/ PartitionConfigNew
    \/ KeyBuilderNew
    \/ TableBucketBuilderNew
    \/ BucketedKeyOf
    \/ BucketForSequence

SpecBuilder == InitBuilder /\ [][NextBuilder]_vars

\* q is the integer quotient n / d
IsQuotient(q, n, d) == q >= 0 /\ q <= n /\ (n - q * d) \in 0..(d - 1)

\* C31: for every bucket_size > 0 and every sequence, the bucket of
\* bucketed_key(k, seq) and bucket_for_sequence(seq) are the integer quotient
\* seq / bucket_size, and the bucketed key carries k.
C31_BucketIsQuotient ==
    /\ applied.op = "bucketed_key" =>
          /\ IsQuotient(applied.res.bucket, applied.sequence, applied.bucket_size)
          /\ applied.res.base_key = applied.base_key
          /\ applied.res.bucket
                = bucket_for_sequence(TableBucketBuilder_new(applied.bucket_size,
                                                             TablePrefix).val,
                                      applied.sequence)
    /\ applied.op = "bucket_for_sequence" =>
          IsQuotient(applied.res, applied.sequence, applied.bucket_size)

\* the sequence 1500 was put into its bucket of size 1000 with the key 123
C31_Witness ==
    /\ applied.op = "bucketed_key"
    /\ applied.bucket_size = 1000
    /\ applied.sequence = 1500
    /\ applied.res = [ base_key |-> 123, bucket |-> 1 ]

\* C32: PartitionConfig::new returns InvalidShardCount for shard_count 0 and
\* InvalidSegmentSize for segment_max_bytes 0, KeyBuilder::new and
\* TableBucketBuilder::new return InvalidBucketSize for bucket_size 0, and each
\* constructor returns an object that holds the given values when no input is 0.
C32_InvalidConfigurationRejected ==
    /\ applied.op = "PartitionConfig::new" =>
          LET shard_count == applied.config[1]
              segment_max_bytes == applied.config[2]
          IN  /\ shard_count = 0 => applied.res = Err(<<"InvalidShardCount", 0>>)
              /\ (shard_count # 0 /\ segment_max_bytes = 0)
                    => applied.res = Err(<<"InvalidSegmentSize", 0>>)
              /\ (shard_count # 0 /\ segment_max_bytes # 0)
                    => /\ applied.res.kind = "ok"
                       /\ applied.res.val.shard_count = shard_count
                       /\ applied.res.val.segment_max_bytes = segment_max_bytes
                       /\ applied.res.val.use_meta = applied.config[3]
    /\ applied.op \in { "KeyBuilder::new", "TableBucketBuilder::new" } =>
          /\ applied.bucket_size = 0 => applied.res = Err(<<"InvalidBucketSize", 0>>)
          /\ applied.bucket_size # 0 =>
                /\ applied.res.kind = "ok"
                /\ applied.res.val.bucket_size = applied.bucket_size
    /\ applied.op = "TableBucketBuilder::new" /\ applied.bucket_size # 0 =>
          applied.res.val.table_prefix = TablePrefix

\* a configuration with shards and a segment size of 0 was refused
C32_Witness ==
    /\ applied.op = "PartitionConfig::new"
    /\ applied.config[1] = 16
    /\ applied.config[2] = 0
    /\ applied.res = Err(<<"InvalidSegmentSize", 0>>)

----------------------------------------------------------------------------
\* The scan range of one (base_key, shard), taken alone.

\* base keys with and without a common prefix, the empty key included
ScanBaseKeys == BaseKeys \cup { <<>>, << 98 >> }
\* shards whose low byte is 0, in between, and 0xFF
ScanShards == { 0, 1, 42, 254, 255, 256, 511, 65280, U16Max }
\* segment ids whose bytes are 0, in between, and 0xFF
ScanSegmentIds == { 0, 1, 255, 256, U16Max }

\* start <= key < end
InScanRange(key, range) == ~LexLess(key, range[1]) /\ LexLess(key, range[2])

InitScan ==
    /\ NoPartition
    /\ NoIterator
    /\ NoMerge
    /\ NoCopy
    /\ NoRoaring
    /\ \E base_key \in ScanBaseKeys, shard \in ScanShards :
          applied = [ op |-> "new", base_key |-> base_key, shard |-> shard,
                      probe |-> <<>>, res |-> None ]

\* the range of the chosen (base_key, shard) is built
BuildSegmentScanRange ==
    /\ "shard" \in DOMAIN applied
    /\ Applies("build_segment_scan_range",
               build_segment_scan_range(applied.base_key, applied.shard))

\* the range is built and the segment key of some (base key, shard, segment
\* id) is looked for in it, as table.range(start..end) does; one look per range
ProbeScanRange ==
    /\ "shard" \in DOMAIN applied
    /\ applied.op # "range"
    /\ \E base_key \in ScanBaseKeys, shard \in ScanShards, segment_id \in ScanSegmentIds :
          LET range == build_segment_scan_range(applied.base_key, applied.shard)
          IN  /\ range.kind = "ok"
              /\ applied' = [ applied EXCEPT
                                !.op = "range",
                                !.probe = << base_key, shard, segment_id >>,
                                !.res = InScanRange(encode_segment_key(base_key, shard,
                                                                       segment_id),
                                                    range.val) ]
    /\ UNCHANGED <<pvars, ivars, mvars, cvars, rvars>>

NextScan ==
    \/ BuildSegmentScanRange
    \/ ProbeScanRange

SpecScan == InitScan /\ [][NextScan]_vars

\* C33: for every base key and shard, the range [start, end) returned by
\* build_segment_scan_range holds the segment key of that (base_key, shard)
\* for every segment id and the segment key of no other (base_key, shard);
\* start is the segment prefix and end is the prefix with its last byte
\* incremented by one.
C33_ScanRangeIsThePrefix ==
    /\ applied.op = "build_segment_scan_range" =>
          LET prefix == build_segment_prefix(applied.base_key, applied.shard)
          IN  /\ applied.res.kind = "ok"
              /\ applied.res.val[1] = prefix
              /\ Len(applied.res.val[2]) = Len(prefix)
              /\ SubSeq(applied.res.val[2], 1, Len(prefix) - 1)
                    = SubSeq(prefix, 1, Len(prefix) - 1)
              /\ applied.res.val[2][Len(prefix)] = prefix[Len(prefix)] + 1
    /\ applied.op = "range" =>
          applied.res = (applied.probe[1] = applied.base_key /\ applied.probe[2] = applied.shard)

----------------------------------------------------------------------------
\* C34: across update_head_segment calls alone on one (base_key, shard), the
\* head segment id never decreases and grows by exactly 1 on each roll, the
\* stored ids are exactly 0..head, and a call writes no segment but the head
\* it leaves behind.
C34_RollingIsAppendOnly ==
    (IsUpdate /\ creates = 0) =>
        LET before == StoredHead(last.before, last.key, last.shard)
            after == StoredHead(segments, last.key, last.shard)
        IN  /\ last.res.kind = "ok"
            /\ after # None
            /\ before # None => after[1] >= before[1]
            /\ (before # None /\ last.res.val[1]) => after[1] = before[1] + 1
            /\ (before # None /\ ~last.res.val[1]) => after[1] = before[1]
            /\ StoredIds(segments, last.key, last.shard) = 0..after[1]
            /\ \A k \in DOMAIN last.before :
                  k # encode_segment_key(last.key, last.shard, after[1])
                     => (k \in DOMAIN segments /\ segments[k] = last.before[k])

----------------------------------------------------------------------------
\* C35: when another writer has created or filled a planned table of the
\* destination between the pre-flight and begin_write(), copy_database inserts
\* no row into that table: after the call the table is as the other writer
\* committed it.
C35_NoInsertIntoRacedTable ==
    Copied =>
        \A name \in copied.raced :
           (\E i \in 1..Len(plan) : plan[i].name = name)
              => destination[name] = copied.before[name]

----------------------------------------------------------------------------
\* the values stored for the base key in start_bucket..=end_bucket, in
\* increasing bucket order
StoredInRange ==
    ValuesAscending(bstore, iter.self.base_key, BucketsInRange(iter.self, bstore))

\* C36: for every start_sequence <= end_sequence, buckets of 2^63 and more
\* included, every call of next() and next_back() returns, and an iterator
\* drained from one side alone has yielded, when the call returns None, the
\* values of every bucket from start_bucket through end_bucket: in increasing
\* bucket order from the front, in decreasing order from the back.
C36_WholeBucketSpace ==
    /\ iter.state \in { "none", "rejected", "live" }
    /\ (IterLive /\ noneCalls.next > 0 /\ noneCalls.next_back = 0 /\ backOut = <<>>)
          => frontOut = StoredInRange
    /\ (IterLive /\ noneCalls.next_back > 0 /\ noneCalls.next = 0 /\ frontOut = <<>>)
          => backOut = Reverse(StoredInRange)

\* the bucket tables of the prefix whose id lies outside the range of the
\* last merge
OutsideBuckets ==
    { name \in BucketTablesOf(mlast.before) :
         parse_u64(strip_prefix(name, TablePrefix \o << "_" >>)[1]).val
            \notin mlast.start_bucket..mlast.end_bucket }

\* the keys the target held before the last merge that no bucket table of the
\* range held
UntouchedTargetKeys ==
    { key \in MergeKeys :
         /\ ValueOf(mlast.before, TargetName, key) # None
         /\ \A b \in MergedBuckets :
               ValueOf(mlast.before, bucket_table_name(TablePrefix, b), key) = None }

\* C37: a successful merge over [start_bucket, end_bucket] leaves every bucket
\* table whose id lies outside the range in existence with the contents it
\* had, and leaves every key of the target that no merged bucket table held
\* with the value it had.
C37_MergeFrame ==
    Merged =>
        /\ \A name \in OutsideBuckets :
              TableOf(db, name) = TableOf(mlast.before, name)
        /\ \A key \in UntouchedTargetKeys :
              ValueOf(db, TargetName, key) = ValueOf(mlast.before, TargetName, key)

\* a merge of existing bucket tables that left a bucket table outside its
\* range and a key of the target that none of them held
C37_Witness ==
    /\ Merged
    /\ MergedBuckets # {}
    /\ \E name \in OutsideBuckets : mlast.before[name] # EmptyTable
    /\ UntouchedTargetKeys # {}
    /\ \E key \in MergeKeys : ValueOf(db, TargetName, key) # ValueOf(mlast.before, TargetName, key)

\* the last call was a successful merge and the step is a successful merge of
\* the range that starts right after its range
MergeContinues ==
    /\ Merged
    /\ mlast'.op = "merge"
    /\ mlast'.res.kind = "ok"
    /\ mlast'.start_bucket = mlast.end_bucket + 1
    /\ mlast'.before = db

\* C38: a merge over [a, m] followed by a merge over [m+1, b] leaves the
\* database, the target and the set of existing tables, that one merge over
\* [a, b] leaves on the database the first merge started from; the merge law
\* joins its operands in order, so it tells the order of the operands apart.
C38_IncrementalMerge ==
    [][ MergeContinues =>
           db' = merge(mlast.before, TablePrefix, TargetName,
                       mlast.start_bucket, mlast'.end_bucket).db ]_vars

\* a merge over 1..2 that followed a merge over 0..0: the target holds for
\* key 1 its own value joined with the values of buckets 0, 1 and 2, in order
C38_Witness ==
    /\ Merged
    /\ mlast.start_bucket = 1
    /\ mlast.end_bucket = 2
    /\ bucket_table_name(TablePrefix, 0) \notin DOMAIN mlast.before
    /\ ValueOf(mlast.before, TargetName, 1)
          = Some(MergeableValue_merge(Some(<< "t" >>), BucketValue(0, 1)))
    /\ ValueOf(db, TargetName, 1)
          = Some(MergeableValue_merge(
                   Some(MergeableValue_merge(
                          Some(MergeableValue_merge(Some(<< "t" >>), BucketValue(0, 1))),
                          BucketValue(1, 1))),
                   BucketValue(2, 1)))
    /\ BucketTablesOf(db) = {}

----------------------------------------------------------------------------
WritingOps ==
    { "insert_member", "remove_member", "insert_members", "remove_members",
      "replace_bitmap", "clear_bitmap" }

\* the bitmap the last writing call leaves for its key, from the bitmap the
\* table held for the key before the call
AskedBitmap ==
    LET held == get_bitmap(rlast.before, rlast.key).val
    IN  CASE rlast.op \in { "insert_member", "insert_members" } -> held \cup rlast.members
          [] rlast.op \in { "remove_member", "remove_members" } -> held \ rlast.members
          [] rlast.op = "replace_bitmap" -> rlast.members
          [] rlast.op = "clear_bitmap" -> {}

\* C39: after any sequence of insert_member, remove_member, insert_members,
\* remove_members, replace_bitmap and clear_bitmap calls on a new table, every
\* stored value decodes to a bitmap that is not empty, and a call that leaves
\* its key without a member (the last member removed, or the bitmap replaced
\* by an empty one) leaves the table without the key.
C39_NoEmptyBitmapStored ==
    /\ \A k \in DOMAIN rtable.rows :
          /\ RoaringValue_decode(rtable.rows[k]).kind = "ok"
          /\ RoaringValue_decode(rtable.rows[k]).val # {}
    /\ (rlast.op \in WritingOps /\ rlast.res.kind = "ok" /\ AskedBitmap = {})
          => rlast.key \notin DOMAIN rtable.rows

\* the bitmap of a stored key was replaced by the empty one while the other
\* key is stored
C39_Witness ==
    /\ rlast.op = "replace_bitmap"
    /\ rlast.res.kind = "ok"
    /\ rlast.members = {}
    /\ rlast.key \in DOMAIN rlast.before
    /\ rlast.key \notin DOMAIN rtable.rows
    /\ \E k \in DOMAIN rtable.rows : k # rlast.key

----------------------------------------------------------------------------
\* new() returned an iterator, which `iter.self` holds
IterMade == iter.state \in { "live", "panicked", "hung" }

\* the cursors lie within the range and have not passed each other by more
\* than one: start_bucket <= front_bucket, back_bucket <= end_bucket,
\* front_bucket <= back_bucket + 1
CursorsInRange(self) ==
    /\ WLeq(self.start_bucket, self.front_bucket)
    /\ WLeq(self.back_bucket, self.end_bucket)
    /\ WLeq(self.front_bucket, Inc(self.back_bucket))

\* A call of next() looks up the buckets front_bucket .. front_bucket' - 1 and
\* a call of next_back() the buckets back_bucket' + 1 .. back_bucket, one
\* lookup for each step of its cursor.  The buckets not looked up so far are
\* front_bucket ..= back_bucket: a call looks up no bucket a second time when
\* its cursor moves forward and stops at most one past the other cursor.
LooksUpOnlyNewBuckets(before, after) ==
    /\ lastCall'.side = "next" =>
          /\ WLeq(before.front_bucket, after.front_bucket)
          /\ WLeq(after.front_bucket, Inc(before.back_bucket))
          /\ after.back_bucket = before.back_bucket
    /\ lastCall'.side = "next_back" =>
          /\ WLeq(after.back_bucket, before.back_bucket)
          /\ WLeq(Dec(before.front_bucket), after.back_bucket)
          /\ after.front_bucket = before.front_bucket

\* C40: in every state of a range iterator start_bucket <= front_bucket,
\* back_bucket <= end_bucket and front_bucket <= back_bucket + 1; next() never
\* decreases front_bucket, next_back() never increases back_bucket, and no
\* call looks up a bucket that a call before it has looked up.
C40_CursorsConverge ==
    /\ [](IterMade => CursorsInRange(iter.self))
    /\ [][(IterMade /\ iter' # iter) => LooksUpOnlyNewBuckets(iter.self, iter'.self)]_vars

\* next() and next_back() have both yielded and the cursors have met: every
\* bucket of a range of three has been looked up
C40_CursorsMet ==
    /\ IterLive
    /\ frontOut # <<>>
    /\ backOut # <<>>
    /\ iter.self.start_bucket = Small(0)
    /\ iter.self.end_bucket = Small(2)
    /\ iter.self.front_bucket = Inc(iter.self.back_bucket)

====
